---- MODULE Spec2Model ----
(***************************************************************************)
(* A model of the documentation chunking pipeline (build.ts, the package   *)
(* builder) and of the retrieval assembly pipeline (search.ts).            *)
(*                                                                         *)
(* Text.  A string of the ingestion side is a Text: a sequence of          *)
(* paragraphs joined by a blank line ("\n\n"); a paragraph is a sequence   *)
(* of lines joined by "\n"; a line is a record                             *)
(*     [kind, len, link]                                                   *)
(* with kind "text" (prose or code), "fence" (a line that is exactly       *)
(* "```"), "tag" (a line that is exactly one MDX tag such as <AppOnly>),   *)
(* "nested" (a line such as <<A>B>, a tag around a tag, which becomes the  *)
(* tag line <B> when the inner tag is removed)                             *)
(* or "h1" (a "# ..." heading line), len its character count (>= 1, no     *)
(* leading or trailing white space) and link the number of its characters  *)
(* that lie inside markdown links.  The empty string is the empty Text.    *)
(* Character lengths are kept exactly, so token estimates are those of the *)
(* code.                                                                   *)
(*                                                                         *)
(* Titles and the strings of the retrieval side are sequences of atoms     *)
(* (words, a line break "\n", the separators " > " and " / ").             *)
(***************************************************************************)
EXTENDS Integers, Sequences, FiniteSets, TLC

VARIABLES
    \* parseMarkdown (ParseSpec)
    doc,          \* the document handed to parseMarkdown
    nodeIdx,      \* position of the next node of the for loop
    loopState,    \* [currentH2, currentNodes, sections] of the loop
    parsed,       \* the sections parseMarkdown returned
    ppc,          \* "loop" | "done" | "threw"
    \* buildPackage (Spec)
    files,        \* the file list of the build
    fileIdx,      \* index of the next file of the for loop
    seenHashes,   \* the build's set of content hashes
    allSections,  \* sections kept so far, in order
    pandocInstalled, \* environment: whether `pandoc --version` succeeds
    pandocAvailable, \* module-level cache: "unknown" | "yes" | "no"
    rstSkipped,   \* counter of .rst files skipped
    chunks,       \* the chunks table: sequence of rows, row i has id i
    buildResult,  \* the BuildResult returned, or NoResult
    bpc,          \* "loop" | "done"
    \* search (SearchSpec)
    db,           \* the chunks table of the opened package
    topic,        \* the topic of the last search call
    executed,     \* whether that call ran the MATCH statement
    matches,      \* what searchFts returned
    filtered,     \* what filterByRelevance returned
    budgeted,     \* what applyTokenBudget returned
    assembled,    \* what assembleResults returned
    results,      \* SearchResult.results
    spc,          \* "ready" | "done" | "threw"
    \* two builds side by side (PairSpec)
    builds,       \* the local state of each buildPackage call
    \* PackageStore (StoreSpec)
    packages,     \* the Map: a function from the present names to their info
    lastCall,     \* the last method called on the store and its argument
    storeRet      \* what that call returned

buildVars == <<files, pandocInstalled, fileIdx, seenHashes, allSections,
               pandocAvailable, rstSkipped, chunks, buildResult, bpc>>
parseVars == <<doc, nodeIdx, loopState, parsed, ppc>>
searchVars == <<db, topic, executed, matches, filtered, budgeted, assembled,
                results, spc>>
storeVars == <<packages, lastCall, storeRet>>
otherVars == <<builds, storeVars>>

-----------------------------------------------------------------------------
(* Constants of build.ts *)

MAX_CHUNK_TOKENS == 800
HARD_LIMIT_TOKENS == 1200
MIN_CHUNK_TOKENS == 5
\* TOC_LINK_RATIO = 0.5, kept as the fraction 1/2
TOC_LINK_RATIO_NUM == 1
TOC_LINK_RATIO_DEN == 2

-----------------------------------------------------------------------------
(* Strings as Texts *)

RECURSIVE SumLen(_)
SumLen(lines) ==
    IF lines = <<>> THEN 0 ELSE Head(lines).len + SumLen(Tail(lines))

RECURSIVE SumLink(_)
SumLink(lines) ==
    IF lines = <<>> THEN 0 ELSE Head(lines).link + SumLink(Tail(lines))

\* character length of a paragraph: its lines and the "\n" between them
ParaLen(para) ==
    IF para = <<>> THEN 0 ELSE SumLen(para) + (Len(para) - 1)

RECURSIVE SumParaLen(_)
SumParaLen(text) ==
    IF text = <<>> THEN 0 ELSE ParaLen(Head(text)) + SumParaLen(Tail(text))

\* text.length: the paragraphs and the "\n\n" between them
TextLen(text) ==
    IF text = <<>> THEN 0 ELSE SumParaLen(text) + 2 * (Len(text) - 1)

\* all lines of a text, in order
RECURSIVE Flatten(_)
Flatten(text) ==
    IF text = <<>> THEN <<>> ELSE Head(text) \o Flatten(Tail(text))

\* estimateTokens(text) = Math.ceil(text.length / 4), given text.length
estimateTokens(chars) == (chars + 3) \div 4

RECURSIVE CountKind(_, _)
CountKind(lines, kind) ==
    IF lines = <<>> THEN 0
    ELSE (IF Head(lines).kind = kind THEN 1 ELSE 0) + CountKind(Tail(lines), kind)

\* /```[\s\S]*?```/.test(content): an opening and a closing fence anywhere
hasCodeBlock(content) == CountKind(Flatten(content), "fence") >= 2

-----------------------------------------------------------------------------
(* cleanMdxContent: tags are removed, runs of 3+ line breaks collapse to   *)
(* one blank line, the result is trimmed.  Removing a tag line leaves an   *)
(* empty line: inside a paragraph it becomes a paragraph break, next to a  *)
(* paragraph break or at either end of the text it disappears.  The       *)
(* replace is a single pass: of a "nested" line the inner tag goes and the *)
(* outer one stays, as a tag line that only a second cleaning removes.     *)

\* what one pass of the tag regex leaves of a line that is not a tag line
AfterTagPass(line) ==
    IF line.kind = "nested"
    THEN [kind |-> "tag", len |-> line.len - line.inner, link |-> 0]
    ELSE line

RECURSIVE SplitAtTags(_, _)
SplitAtTags(lines, cur) ==
    IF lines = <<>> THEN (IF cur = <<>> THEN <<>> ELSE <<cur>>)
    ELSE IF Head(lines).kind = "tag"
         THEN (IF cur = <<>> THEN <<>> ELSE <<cur>>) \o SplitAtTags(Tail(lines), <<>>)
         ELSE SplitAtTags(Tail(lines), Append(cur, AfterTagPass(Head(lines))))

RECURSIVE cleanMdxContent(_)
cleanMdxContent(content) ==
    IF content = <<>> THEN <<>>
    ELSE SplitAtTags(Head(content), <<>>) \o cleanMdxContent(Tail(content))

-----------------------------------------------------------------------------
(* isTableOfContents.  Titles are sequences of words; toLowerCase maps     *)
(* each word to its lower-case form.                                       *)

LowerWord(w) ==
    CASE w = "Table" -> "table"
      [] w = "Of" -> "of"
      [] w = "Contents" -> "contents"
      [] w = "TOC" -> "toc"
      [] w = "Index" -> "index"
      [] w = "Guide" -> "guide"
      [] OTHER -> w

toLowerCase(title) == [i \in 1..Len(title) |-> LowerWord(title[i])]

\* title.includes(needle) on word sequences
Includes(title, needle) ==
    \E i \in 0..(Len(title) - Len(needle)) :
        \A j \in 1..Len(needle) : title[i + j] = needle[j]

\* mutant of isTableOfContents: the title is not looked at
isTableOfContents_LinksOnly(sectionTitle, content) ==
    /\ TextLen(content) > 0
    /\ SumLink(Flatten(content)) * TOC_LINK_RATIO_DEN > TOC_LINK_RATIO_NUM * TextLen(content)

isTableOfContents(sectionTitle, content) ==
    LET lowerTitle == toLowerCase(sectionTitle)
        linkTextLength == SumLink(Flatten(content))
    IN  \/ Includes(lowerTitle, <<"table", "of", "contents">>)
        \/ lowerTitle = <<"toc">>
        \/ lowerTitle = <<"contents">>
        \/ lowerTitle = <<"index">>
        \/ /\ TextLen(content) > 0
           /\ linkTextLength * TOC_LINK_RATIO_DEN > TOC_LINK_RATIO_NUM * TextLen(content)

-----------------------------------------------------------------------------
(* splitOversizedContent, on one paragraph (a string without blank lines)  *)

\* The matches of /```[\s\S]*?```/g with the trimmed text between them:
\* a fence line opens a match when a later fence line closes it.
RECURSIVE CodeBlockParts(_, _)
CodeBlockParts(lines, before) ==
    LET flush == IF before = <<>> THEN <<>> ELSE <<before>>
    IN  IF lines = <<>> THEN flush
        ELSE IF /\ Head(lines).kind = "fence"
                /\ \E j \in 2..Len(lines) : lines[j].kind = "fence"
             THEN LET close == CHOOSE j \in 2..Len(lines) :
                                  /\ lines[j].kind = "fence"
                                  /\ \A k \in 2..(j - 1) : lines[k].kind # "fence"
                  IN  flush \o <<SubSeq(lines, 1, close)>>
                            \o CodeBlockParts(SubSeq(lines, close + 1, Len(lines)), <<>>)
             ELSE CodeBlockParts(Tail(lines), Append(before, Head(lines)))

\* the line loop without the push of the last chunk after the loop
RECURSIVE SplitByLines_NoTail(_, _, _)
SplitByLines_NoTail(lines, currentChunk, currentTokens) ==
    IF lines = <<>>
    THEN <<>>
    ELSE LET line == Head(lines)
             lineTokens == estimateTokens(line.len + 1)
         IN  IF currentTokens + lineTokens > HARD_LIMIT_TOKENS /\ currentChunk # <<>>
             THEN <<currentChunk>> \o SplitByLines_NoTail(Tail(lines), <<line>>, lineTokens)
             ELSE SplitByLines_NoTail(Tail(lines), Append(currentChunk, line),
                                      currentTokens + lineTokens)

\* the line loop: currentChunk grows until the next line would pass the
\* hard limit; a chunk is only pushed when currentChunk is non-empty
RECURSIVE SplitByLines(_, _, _)
SplitByLines(lines, currentChunk, currentTokens) ==
    IF lines = <<>>
    THEN (IF currentChunk # <<>> THEN <<currentChunk>> ELSE <<>>)
    ELSE LET line == Head(lines)
             lineTokens == estimateTokens(line.len + 1)
         IN  IF currentTokens + lineTokens > HARD_LIMIT_TOKENS /\ currentChunk # <<>>
             THEN <<currentChunk>> \o SplitByLines(Tail(lines), <<line>>, lineTokens)
             ELSE SplitByLines(Tail(lines), Append(currentChunk, line),
                               currentTokens + lineTokens)

RECURSIVE splitOversizedContent(_)
RECURSIVE FlatMapSplit(_)
FlatMapSplit(parts) ==
    IF parts = <<>> THEN <<>>
    ELSE splitOversizedContent(Head(parts)) \o FlatMapSplit(Tail(parts))

splitOversizedContent(content) ==
    IF estimateTokens(ParaLen(content)) <= HARD_LIMIT_TOKENS
    THEN <<content>>
    ELSE LET parts == CodeBlockParts(content, <<>>)
         IN  IF Len(parts) > 1
             THEN FlatMapSplit(parts)
             ELSE SplitByLines(content, <<>>, 0)

-----------------------------------------------------------------------------
(* createSection and splitAtParagraphs *)

\* `${sectionTitle} (part ${partNum})`
PartTitle(sectionTitle, partNum) ==
    IF partNum > 1
    THEN Append(sectionTitle, " (part " \o ToString(partNum) \o ")")
    ELSE sectionTitle

\* createSection without the MIN_CHUNK_TOKENS test
createSection_NoMin(docPath, docTitle, sectionTitle, content, partNum) ==
    LET cleanedContent == cleanMdxContent(content)
        tokens == estimateTokens(TextLen(cleanedContent))
    IN  IF cleanedContent = <<>>
        THEN <<>>
        ELSE << [docPath |-> docPath,
                 docTitle |-> docTitle,
                 sectionTitle |-> PartTitle(sectionTitle, partNum),
                 content |-> cleanedContent,
                 tokens |-> tokens,
                 hasCode |-> hasCodeBlock(cleanedContent)] >>

\* returns <<section>>, or <<>> where the code returns null
createSection(docPath, docTitle, sectionTitle, content, partNum) ==
    LET cleanedContent == cleanMdxContent(content)
        tokens == estimateTokens(TextLen(cleanedContent))
    IN  IF cleanedContent = <<>> \/ tokens < MIN_CHUNK_TOKENS
        THEN <<>>
        ELSE << [docPath |-> docPath,
                 docTitle |-> docTitle,
                 sectionTitle |-> PartTitle(sectionTitle, partNum),
                 content |-> cleanedContent,
                 tokens |-> tokens,
                 hasCode |-> hasCodeBlock(cleanedContent)] >>

\* the inner loop over the sub-parts of an oversized paragraph;
\* returns [sections, partNum]
RECURSIVE EmitSubParts(_, _, _, _, _, _)
EmitSubParts(subParts, sections, partNum, docPath, docTitle, sectionTitle) ==
    IF subParts = <<>> THEN [sections |-> sections, partNum |-> partNum]
    ELSE LET section == createSection(docPath, docTitle, sectionTitle,
                                      <<Head(subParts)>>, partNum)
         IN  EmitSubParts(Tail(subParts), sections \o section,
                          IF section # <<>> THEN partNum + 1 ELSE partNum,
                          docPath, docTitle, sectionTitle)

\* the paragraph loop where a flush advances partNum also when createSection
\* returns null
RECURSIVE ParagraphLoop_CountsDiscarded(_, _, _, _, _, _, _, _)
ParagraphLoop_CountsDiscarded(paragraphs, sections, currentContent, currentTokens, partNum, docPath, docTitle, sectionTitle) ==
    LET flushed == IF currentContent # <<>>
                   THEN createSection(docPath, docTitle, sectionTitle,
                                      currentContent, partNum)
                   ELSE <<>>
        nextNum == IF currentContent # <<>> THEN partNum + 1 ELSE partNum
    IN  IF paragraphs = <<>> THEN sections \o flushed
        ELSE LET para == Head(paragraphs)
                 paraTokens == estimateTokens(ParaLen(para))
             IN  IF paraTokens > HARD_LIMIT_TOKENS
                 THEN LET sub == EmitSubParts(splitOversizedContent(para),
                                              sections \o flushed, nextNum,
                                              docPath, docTitle, sectionTitle)
                      IN  ParagraphLoop_CountsDiscarded(Tail(paragraphs), sub.sections, <<>>, 0,
                                        sub.partNum, docPath, docTitle, sectionTitle)
                 ELSE IF currentTokens + paraTokens > MAX_CHUNK_TOKENS
                         /\ currentContent # <<>>
                      THEN ParagraphLoop_CountsDiscarded(Tail(paragraphs), sections \o flushed,
                                         <<para>>, paraTokens, nextNum,
                                         docPath, docTitle, sectionTitle)
                      ELSE ParagraphLoop_CountsDiscarded(Tail(paragraphs), sections,
                                         Append(currentContent, para),
                                         currentTokens + paraTokens, partNum,
                                         docPath, docTitle, sectionTitle)

\* the paragraph loop where the flush test compares with HARD_LIMIT_TOKENS
RECURSIVE ParagraphLoop_FlushAtHardLimit(_, _, _, _, _, _, _, _)
ParagraphLoop_FlushAtHardLimit(paragraphs, sections, currentContent, currentTokens, partNum, docPath, docTitle, sectionTitle) ==
    LET flushed == IF currentContent # <<>>
                   THEN createSection(docPath, docTitle, sectionTitle,
                                      currentContent, partNum)
                   ELSE <<>>
        nextNum == IF flushed # <<>> THEN partNum + 1 ELSE partNum
    IN  IF paragraphs = <<>> THEN sections \o flushed
        ELSE LET para == Head(paragraphs)
                 paraTokens == estimateTokens(ParaLen(para))
             IN  IF paraTokens > HARD_LIMIT_TOKENS
                 THEN LET sub == EmitSubParts(splitOversizedContent(para),
                                              sections \o flushed, nextNum,
                                              docPath, docTitle, sectionTitle)
                      IN  ParagraphLoop_FlushAtHardLimit(Tail(paragraphs), sub.sections, <<>>, 0,
                                        sub.partNum, docPath, docTitle, sectionTitle)
                 ELSE IF currentTokens + paraTokens > HARD_LIMIT_TOKENS
                         /\ currentContent # <<>>
                      THEN ParagraphLoop_FlushAtHardLimit(Tail(paragraphs), sections \o flushed,
                                         <<para>>, paraTokens, nextNum,
                                         docPath, docTitle, sectionTitle)
                      ELSE ParagraphLoop_FlushAtHardLimit(Tail(paragraphs), sections,
                                         Append(currentContent, para),
                                         currentTokens + paraTokens, partNum,
                                         docPath, docTitle, sectionTitle)

\* the loop over the paragraphs and the final flush
RECURSIVE ParagraphLoop(_, _, _, _, _, _, _, _)
ParagraphLoop(paragraphs, sections, currentContent, currentTokens, partNum, docPath, docTitle, sectionTitle) ==
    LET flushed == IF currentContent # <<>>
                   THEN createSection(docPath, docTitle, sectionTitle,
                                      currentContent, partNum)
                   ELSE <<>>
        nextNum == IF flushed # <<>> THEN partNum + 1 ELSE partNum
    IN  IF paragraphs = <<>> THEN sections \o flushed
        ELSE LET para == Head(paragraphs)
                 paraTokens == estimateTokens(ParaLen(para))
             IN  IF paraTokens > HARD_LIMIT_TOKENS
                 THEN LET sub == EmitSubParts(splitOversizedContent(para),
                                              sections \o flushed, nextNum,
                                              docPath, docTitle, sectionTitle)
                      IN  ParagraphLoop(Tail(paragraphs), sub.sections, <<>>, 0,
                                        sub.partNum, docPath, docTitle, sectionTitle)
                 ELSE IF currentTokens + paraTokens > MAX_CHUNK_TOKENS
                         /\ currentContent # <<>>
                      THEN ParagraphLoop(Tail(paragraphs), sections \o flushed,
                                         <<para>>, paraTokens, nextNum,
                                         docPath, docTitle, sectionTitle)
                      ELSE ParagraphLoop(Tail(paragraphs), sections,
                                         Append(currentContent, para),
                                         currentTokens + paraTokens, partNum,
                                         docPath, docTitle, sectionTitle)

\* content.split(/\n\n+/) is the Text's own sequence of paragraphs
splitAtParagraphs(content, docPath, docTitle, sectionTitle) ==
    ParagraphLoop(content, <<>>, <<>>, 0, 1, docPath, docTitle, sectionTitle)

-----------------------------------------------------------------------------
(* parseMarkdown.  A document is                                           *)
(*   [path, stem, yaml, fmTitle, rst, nodes]                               *)
(* path its file path, stem the file name without .md/.mdx, yaml the       *)
(* frontmatter block ("none": no block; "null": a block that parseYaml     *)
(* turns into null; "map": a mapping), fmTitle the mapping's title (<<>>   *)
(* when it has none), rst TRUE for a .rst path, and nodes the children of  *)
(* the parsed tree in order:                                               *)
(*   [type |-> "heading", depth, children, len]   an ATX heading line      *)
(*   [type |-> "block", text]                     any other node           *)
(* consecutive nodes being separated by a blank line in the source.        *)

\* getHeadingText: the values of the text and inlineCode children
RECURSIVE getHeadingText(_)
getHeadingText(children) ==
    IF children = <<>> THEN <<>>
    ELSE (IF Head(children).type \in {"text", "inlineCode"}
          THEN <<Head(children).value>> ELSE <<>>)
         \o getHeadingText(Tail(children))

\* the source text of one node
NodeSource(node) ==
    IF node.type = "heading"
    THEN << << [kind |-> "h1", len |-> node.len, link |-> 0] >> >>
    ELSE node.text

RECURSIVE SourceSlice(_, _, _)
SourceSlice(source, from, to) ==
    IF from > to THEN <<>>
    ELSE NodeSource(source[from]) \o SourceSlice(source, from + 1, to)

\* astToMarkdown(nodes, source): the source from the start of the first
\* node to the end of the last one; nodes holds positions in the tree
astToMarkdown(nodes, source) ==
    IF nodes = <<>> THEN <<>>
    ELSE SourceSlice(source, nodes[1], nodes[Len(nodes)])

\* parseYaml gave null: reading frontmatter.title throws a TypeError
ParseThrows(d) == d.yaml = "null"

\* frontmatter.title || file name stem || "Untitled"
DocTitle(d) ==
    IF d.yaml = "map" /\ d.fmTitle # <<>> THEN d.fmTitle
    ELSE IF d.stem # <<>> THEN d.stem
    ELSE <<"Untitled">>

\* "Save previous section" / "Save last section": the sections one heading
\* contributes.  A null currentH2 and an empty one are both falsy, and the
\* code reads currentH2 only through its truth value: both are <<>> here.
SaveSection(currentH2, currentNodes, source, filePath, docTitle) ==
    IF currentH2 # <<>> /\ currentNodes # <<>>
    THEN LET content == astToMarkdown(currentNodes, source)
             cleanedContent == cleanMdxContent(content)
             tokens == estimateTokens(TextLen(cleanedContent))
         IN  IF cleanedContent # <<>> /\ ~isTableOfContents(currentH2, cleanedContent)
             THEN IF tokens > MAX_CHUNK_TOKENS
                  THEN splitAtParagraphs(cleanedContent, filePath, docTitle, currentH2)
                  ELSE IF tokens >= MIN_CHUNK_TOKENS
                       THEN << [docPath |-> filePath,
                                docTitle |-> docTitle,
                                sectionTitle |-> currentH2,
                                content |-> cleanedContent,
                                tokens |-> tokens,
                                hasCode |-> hasCodeBlock(cleanedContent)] >>
                       ELSE <<>>
             ELSE <<>>
    ELSE <<>>

\* mutant of NodeStep: the saved sections are put in front
NodeStep_SavedFirst(st, d, i) ==
    LET node == d.nodes[i]
    IN  IF node.type = "heading" /\ node.depth = 2
        THEN [currentH2 |-> getHeadingText(node.children),
              currentNodes |-> <<>>,
              sections |-> SaveSection(st.currentH2, st.currentNodes, d.nodes,
                                       d.path, DocTitle(d))
                           \o st.sections]
        ELSE IF st.currentH2 # <<>>
             THEN [st EXCEPT !.currentNodes = Append(@, i)]
             ELSE IF node.type = "heading" /\ node.depth = 1
                  THEN st
                  ELSE [st EXCEPT !.currentH2 = <<"Introduction">>,
                                  !.currentNodes = Append(@, i)]

\* one iteration of `for (const node of contentNodes)`, on the loop state
\* [currentH2, currentNodes, sections]; i is the node's position
NodeStep(st, d, i) ==
    LET node == d.nodes[i]
    IN  IF node.type = "heading" /\ node.depth = 2
        THEN [currentH2 |-> getHeadingText(node.children),
              currentNodes |-> <<>>,
              sections |-> st.sections
                  \o SaveSection(st.currentH2, st.currentNodes, d.nodes,
                                 d.path, DocTitle(d))]
        ELSE IF st.currentH2 # <<>>
             THEN [st EXCEPT !.currentNodes = Append(@, i)]
             ELSE IF node.type = "heading" /\ node.depth = 1
                  THEN st
                  ELSE [st EXCEPT !.currentH2 = <<"Introduction">>,
                                  !.currentNodes = Append(@, i)]

LoopStart == [currentH2 |-> <<>>, currentNodes |-> <<>>, sections |-> <<>>]

RECURSIVE NodeLoop(_, _, _)
NodeLoop(st, d, i) ==
    IF i > Len(d.nodes) THEN st ELSE NodeLoop(NodeStep(st, d, i), d, i + 1)

\* the sections returned after the loop ("Save last section")
FinishParse(st, d) ==
    st.sections \o SaveSection(st.currentH2, st.currentNodes, d.nodes,
                               d.path, DocTitle(d))

\* parseMarkdown(source, filePath).sections, for a document that parses
parseMarkdown(d) == FinishParse(NodeLoop(LoopStart, d, 1), d)

-----------------------------------------------------------------------------
(* Inputs of parseMarkdown *)

MaxNodes == 4

SeqsUpTo(S, n) == UNION {[1..k -> S] : k \in 0..n}

TextLine(n) == [kind |-> "text", len |-> n, link |-> 0]
FenceLine == [kind |-> "fence", len |-> 3, link |-> 0]
TagLine == [kind |-> "tag", len |-> 9, link |-> 0]
\* "<<A>Box>": 8 characters, 3 of them the inner tag
NestedLine == [kind |-> "nested", len |-> 8, link |-> 0, inner |-> 3]

Block(lines) == [type |-> "block", text |-> <<lines>>]
H2(word) == [type |-> "heading", depth |-> 2, len |-> 4,
             children |-> <<[type |-> "text", value |-> word]>>]
H1Node == [type |-> "heading", depth |-> 1, len |-> 7,
           children |-> <<[type |-> "text", value |-> "Doc"]>>]

\* Blocks around the thresholds: 16 and 17 characters are 4 and 5 tokens,
\* 3201 characters 801 tokens, 4801 characters 1201 tokens.
ParseBlocks ==
    { Block(<<TextLine(16)>>),
      Block(<<TextLine(17)>>),
      Block(<<TextLine(1600)>>),
      Block(<<TextLine(3201)>>),
      Block(<<TextLine(4801)>>),
      Block(<<TextLine(2400), TextLine(2400)>>),
      Block(<<TextLine(17), FenceLine, TextLine(2400), TextLine(2400),
              FenceLine, TextLine(16)>>),
      Block(<<TextLine(17), TagLine, TextLine(16)>>),
      Block(<<TextLine(3201), NestedLine>>) }

ParseNodes == ParseBlocks \cup {H2("A"), H1Node}

MkDoc(path, stem, yaml, fmTitle, nodes) ==
    [path |-> path, stem |-> stem, yaml |-> yaml, fmTitle |-> fmTitle,
     rst |-> FALSE, convertible |-> TRUE, nodes |-> nodes]

ParseDocs ==
    { MkDoc("docs/guide.md", <<"guide">>, "none", <<>>, n) :
          n \in SeqsUpTo(ParseNodes, MaxNodes) }
    \cup { MkDoc("docs/guide.md", <<"guide">>, y[1], y[2], <<H2("A"), b>>) :
          y \in {<<"null", <<>>>>, <<"map", <<"Guide">>>>, <<"map", <<>>>>},
          b \in ParseBlocks }

NoDoc == MkDoc("", <<>>, "none", <<>>, <<>>)

-----------------------------------------------------------------------------
(* parseMarkdown on documents of headings (OutlineSpec): H2 headings with   *)
(* plain, table-of-contents and empty extracted texts, an H1 heading, a     *)
(* small block and a block that is split.                                   *)

H2Words(words) ==
    [type |-> "heading", depth |-> 2, len |-> 4,
     children |-> [i \in 1..Len(words) |-> [type |-> "text", value |-> words[i]]]]

\* "## *x*": the heading's only child is an emphasis node
H2Emphasis ==
    [type |-> "heading", depth |-> 2, len |-> 6,
     children |-> <<[type |-> "emphasis", value |-> "x"]>>]

OutlineNodes ==
    { H2Words(<<"A">>), H2Words(<<"B">>),
      H2Words(<<"TOC">>), H2Words(<<"Table", "Of", "Contents">>),
      H2Words(<<"index">>), H2Words(<<"Contents">>),
      H2Emphasis, H1Node,
      Block(<<TextLine(17)>>),
      Block(<<TextLine(2400), TextLine(2400)>>) }

OutlineDocs ==
    { MkDoc("docs/guide.md", <<"guide">>, "none", <<>>, n) :
          n \in SeqsUpTo(OutlineNodes, MaxNodes) }
    \cup { MkDoc("docs/guide.md", <<"guide">>, "null", <<>>, <<H2Words(<<"A">>)>>) }

-----------------------------------------------------------------------------
(* parseMarkdown, step by step (ParseSpec) *)

ParseIdle ==
    /\ doc = NoDoc
    /\ nodeIdx = 0
    /\ loopState = LoopStart
    /\ parsed = <<>>
    /\ ppc = "idle"

BuildIdle ==
    /\ files = <<>>
    /\ pandocInstalled = FALSE
    /\ fileIdx = 0
    /\ seenHashes = {}
    /\ allSections = <<>>
    /\ pandocAvailable = "unknown"
    /\ rstSkipped = 0
    /\ chunks = <<>>
    /\ buildResult = <<>>
    /\ bpc = "idle"

StoreIdle ==
    /\ packages = <<>>
    /\ lastCall = [op |-> "new", name |-> "", version |-> 0]
    /\ storeRet = <<>>

OtherIdle ==
    /\ builds = <<>>
    /\ StoreIdle

SearchIdle ==
    /\ db = <<>>
    /\ topic = <<>>
    /\ executed = FALSE
    /\ matches = <<>>
    /\ filtered = <<>>
    /\ budgeted = <<>>
    /\ assembled = <<>>
    /\ results = <<>>
    /\ spc = "idle"

ParseInit ==
    /\ doc \in ParseDocs
    /\ nodeIdx = 1
    /\ loopState = LoopStart
    /\ parsed = <<>>
    /\ ppc = "start"
    /\ BuildIdle
    /\ SearchIdle
    /\ OtherIdle

\* the tree is parsed and the document title read (build.ts 306-316)
ParseBegin ==
    /\ ppc = "start"
    /\ \/ ParseThrows(doc) /\ ppc' = "threw"
       \/ ~ParseThrows(doc) /\ ppc' = "loop"
    /\ UNCHANGED <<doc, nodeIdx, loopState, parsed>>
    /\ UNCHANGED <<buildVars, searchVars, otherVars>>

\* one iteration of the node loop
ParseNode ==
    /\ ppc = "loop"
    /\ nodeIdx <= Len(doc.nodes)
    /\ loopState' = NodeStep(loopState, doc, nodeIdx)
    /\ nodeIdx' = nodeIdx + 1
    /\ UNCHANGED <<doc, parsed, ppc>>
    /\ UNCHANGED <<buildVars, searchVars, otherVars>>

\* the last section is saved and the sections are returned
ParseReturn ==
    /\ ppc = "loop"
    /\ nodeIdx > Len(doc.nodes)
    /\ parsed' = FinishParse(loopState, doc)
    /\ loopState' = [loopState EXCEPT !.sections = parsed']
    /\ ppc' = "done"
    /\ UNCHANGED <<doc, nodeIdx>>
    /\ UNCHANGED <<buildVars, searchVars, otherVars>>

ParseNext == ParseBegin \/ ParseNode \/ ParseReturn

vars == <<parseVars, buildVars, searchVars, otherVars>>

ParseSpec == ParseInit /\ [][ParseNext]_vars

\* the same steps on the documents of headings
OutlineInit ==
    /\ doc \in OutlineDocs
    /\ nodeIdx = 1
    /\ loopState = LoopStart
    /\ parsed = <<>>
    /\ ppc = "start"
    /\ BuildIdle
    /\ SearchIdle
    /\ OtherIdle

OutlineSpec == OutlineInit /\ [][ParseNext]_vars

-----------------------------------------------------------------------------
(* buildPackage (package builder).  A file of the build is a document as   *)
(* above; for a .rst file its nodes are those of the markdown pandoc makes *)
(* of it, and convertible says whether that conversion succeeds.           *)

\* contentHash: the first 16 hex digits of the MD5 of the content alone.
\* The digest is taken to be collision-free on the contents of one build.
contentHash(content) == [md5 |-> content]

\* rstToMarkdown(content) = null: pandoc is missing or the conversion fails
RstFails(file, installed) == ~installed \/ ~file.convertible

\* what the body of the file loop does with one file
FileOutcome(file, installed) ==
    IF file.rst /\ RstFails(file, installed) THEN "rstSkipped"
    ELSE IF ParseThrows(file) THEN "parseFailed"
    ELSE "parsed"

\* the dedup loop without seenHashes.add(hash)
RECURSIVE DedupSections_NoAdd(_, _)
DedupSections_NoAdd(sections, st) ==
    IF sections = <<>> THEN st
    ELSE LET section == Head(sections)
             hash == contentHash(section.content)
         IN  IF hash \notin st.seen
             THEN DedupSections_NoAdd(Tail(sections),
                                      [seen |-> st.seen,
                                       kept |-> Append(st.kept, section)])
             ELSE DedupSections_NoAdd(Tail(sections), st)

\* `for (const section of parsed.sections)`: a section is kept when its
\* hash is new; st is [seen, kept]
RECURSIVE DedupSections(_, _)
DedupSections(sections, st) ==
    IF sections = <<>> THEN st
    ELSE LET section == Head(sections)
             hash == contentHash(section.content)
         IN  IF hash \notin st.seen
             THEN DedupSections(Tail(sections),
                                [seen |-> st.seen \cup {hash},
                                 kept |-> Append(st.kept, section)])
             ELSE DedupSections(Tail(sections), st)

RECURSIVE HashesOf(_)
HashesOf(sections) ==
    IF sections = <<>> THEN {}
    ELSE {contentHash(Head(sections).content)} \cup HashesOf(Tail(sections))

\* the file loop where a file that fails has already put the hashes of its
\* sections into the set
FileStep_FailedFileHashes(st, file, installed) ==
    CASE FileOutcome(file, installed) = "rstSkipped" ->
             [st EXCEPT !.skipped = @ + 1]
      [] FileOutcome(file, installed) = "parseFailed" ->
             [st EXCEPT !.seen = @ \cup HashesOf(parseMarkdown(file))]
      [] OTHER ->
             LET d == DedupSections(parseMarkdown(file),
                                    [seen |-> st.seen, kept |-> st.kept])
             IN  [seen |-> d.seen, kept |-> d.kept, skipped |-> st.skipped]

\* one iteration of `for (const file of files)` on [seen, kept, skipped]
FileStep(st, file, installed) ==
    CASE FileOutcome(file, installed) = "rstSkipped" ->
             [st EXCEPT !.skipped = @ + 1]
      [] FileOutcome(file, installed) = "parseFailed" -> st
      [] OTHER ->
             LET d == DedupSections(parseMarkdown(file),
                                    [seen |-> st.seen, kept |-> st.kept])
             IN  [seen |-> d.seen, kept |-> d.kept, skipped |-> st.skipped]

RECURSIVE FileLoop(_, _, _)
FileLoop(st, fs, installed) ==
    IF fs = <<>> THEN st
    ELSE FileLoop(FileStep(st, Head(fs), installed), Tail(fs), installed)

\* allSections, seenHashes and rstSkipped after the file loop
BuildSections(fs, installed) ==
    FileLoop([seen |-> {}, kept |-> <<>>, skipped |-> 0], fs, installed)

RECURSIVE SumTokens(_)
SumTokens(sections) ==
    IF sections = <<>> THEN 0 ELSE Head(sections).tokens + SumTokens(Tail(sections))

\* insertAll where the id of a row is computed from its content
InsertAll_IdFromContent(sections) ==
    [i \in 1..Len(sections) |->
        [id |-> TextLen(sections[i].content),
         docPath |-> sections[i].docPath,
         docTitle |-> sections[i].docTitle,
         sectionTitle |-> sections[i].sectionTitle,
         content |-> sections[i].content,
         tokens |-> sections[i].tokens,
         hasCode |-> sections[i].hasCode]]

\* insertAll: the rows of the fresh chunks table; INTEGER PRIMARY KEY gives
\* row i of the transaction the id i
InsertAll(sections) ==
    [i \in 1..Len(sections) |->
        [id |-> i,
         docPath |-> sections[i].docPath,
         docTitle |-> sections[i].docTitle,
         sectionTitle |-> sections[i].sectionTitle,
         content |-> sections[i].content,
         tokens |-> sections[i].tokens,
         hasCode |-> sections[i].hasCode]]

-----------------------------------------------------------------------------
(* Inputs of buildPackage *)

MaxFiles == 2

\* a heading with its block: two titles over one content, two contents
\* under one title
BuildHeadings ==
    { <<H2("A"), Block(<<TextLine(17)>>)>>,
      <<H2("B"), Block(<<TextLine(17)>>)>>,
      <<H2("A"), Block(<<TextLine(20)>>)>> }

BuildNodes == BuildHeadings \cup { a \o b : a \in BuildHeadings, b \in BuildHeadings }

\* md that parses, md that throws, rst that converts, rst that does not
FileModes ==
    { [rst |-> FALSE, yaml |-> "none", convertible |-> TRUE],
      [rst |-> FALSE, yaml |-> "null", convertible |-> TRUE],
      [rst |-> TRUE, yaml |-> "none", convertible |-> TRUE],
      [rst |-> TRUE, yaml |-> "none", convertible |-> FALSE] }

MkFile(i, mode, nodes) ==
    [path |-> "docs/f" \o ToString(i) \o (IF mode.rst THEN ".rst" ELSE ".md"),
     stem |-> <<"f" \o ToString(i)>>,
     yaml |-> mode.yaml, fmTitle |-> <<>>, rst |-> mode.rst,
     convertible |-> mode.convertible, nodes |-> nodes]

\* the lists of at most n files
FileLists(n) ==
    UNION { { [i \in 1..k |-> MkFile(i, m[i], n2[i])] :
                  m \in [1..k -> FileModes], n2 \in [1..k -> BuildNodes] } :
            k \in 0..n }

-----------------------------------------------------------------------------
(* buildPackage, file by file (Spec) *)

Init ==
    /\ files \in FileLists(MaxFiles)
    /\ pandocInstalled \in BOOLEAN
    /\ fileIdx = 1
    /\ seenHashes = {}
    /\ allSections = <<>>
    /\ pandocAvailable = "unknown"
    /\ rstSkipped = 0
    /\ chunks = <<>>
    /\ buildResult = <<>>
    /\ bpc = "loop"
    /\ ParseIdle
    /\ SearchIdle
    /\ OtherIdle

LoopState == [seen |-> seenHashes, kept |-> allSections, skipped |-> rstSkipped]

\* isPandocAvailable: the first call runs pandoc and caches the answer
PandocChecked ==
    IF pandocAvailable = "unknown"
    THEN (IF pandocInstalled THEN "yes" ELSE "no")
    ELSE pandocAvailable

\* one iteration of the file loop
ProcessFile ==
    /\ bpc = "loop"
    /\ fileIdx <= Len(files)
    /\ LET st == FileStep(LoopState, files[fileIdx], pandocInstalled)
       IN  /\ seenHashes' = st.seen
           /\ allSections' = st.kept
           /\ rstSkipped' = st.skipped
    /\ pandocAvailable' = IF files[fileIdx].rst THEN PandocChecked ELSE pandocAvailable
    /\ fileIdx' = fileIdx + 1
    /\ UNCHANGED <<files, pandocInstalled, chunks, buildResult, bpc>>
    /\ UNCHANGED <<parseVars, searchVars, otherVars>>

\* a .rst file that pandoc cannot convert: rstSkipped++, continue
SkipRst ==
    /\ bpc = "loop" /\ fileIdx <= Len(files)
    /\ FileOutcome(files[fileIdx], pandocInstalled) = "rstSkipped"
    /\ ProcessFile

\* parseMarkdown throws: the catch block skips the file
SkipUnparsable ==
    /\ bpc = "loop" /\ fileIdx <= Len(files)
    /\ FileOutcome(files[fileIdx], pandocInstalled) = "parseFailed"
    /\ ProcessFile

\* the file parses: its sections pass the dedup loop
KeepSections ==
    /\ bpc = "loop" /\ fileIdx <= Len(files)
    /\ FileOutcome(files[fileIdx], pandocInstalled) = "parsed"
    /\ ProcessFile

\* after the loop: the transaction inserts allSections, the FTS index is
\* rebuilt and the BuildResult is returned
FinishBuild ==
    /\ bpc = "loop"
    /\ fileIdx > Len(files)
    /\ chunks' = InsertAll(allSections)
    /\ buildResult' = << [sectionCount |-> Len(allSections),
                          totalTokens |-> SumTokens(allSections),
                          rstSkipped |-> rstSkipped] >>
    /\ bpc' = "done"
    /\ UNCHANGED <<files, pandocInstalled, fileIdx, seenHashes, allSections,
                   pandocAvailable, rstSkipped>>
    /\ UNCHANGED <<parseVars, searchVars, otherVars>>

Next == SkipRst \/ SkipUnparsable \/ KeepSections \/ FinishBuild

Spec == Init /\ [][Next]_vars

-----------------------------------------------------------------------------
(* Claims about buildPackage *)

\* the files the loop has dealt with so far
Processed == SubSeq(files, 1, fileIdx - 1)

\* every section parseMarkdown returned for them, in file-then-heading order
RECURSIVE ParsedSections(_)
ParsedSections(fs) ==
    IF fs = <<>> THEN <<>>
    ELSE (IF FileOutcome(Head(fs), pandocInstalled) = "parsed"
          THEN parseMarkdown(Head(fs)) ELSE <<>>)
         \o ParsedSections(Tail(fs))

\* the elements of seq whose content no earlier element has
RECURSIVE FirstOfEachContent(_, _)
FirstOfEachContent(seq, i) ==
    IF i > Len(seq) THEN <<>>
    ELSE (IF \A j \in 1..(i - 1) : seq[j].content # seq[i].content
          THEN <<seq[i]>> ELSE <<>>)
         \o FirstOfEachContent(seq, i + 1)

\* C5: the build keeps exactly one Section per distinct content, the first
\* in file-then-heading order with its own docPath and title; later
\* sections of the same content are dropped whatever their title or path,
\* and the chunks table holds exactly the kept sections.
C5_FirstOfEachContentKept ==
    /\ allSections = FirstOfEachContent(ParsedSections(Processed), 1)
    /\ bpc = "done" =>
           /\ Len(chunks) = Len(allSections)
           /\ \A i \in 1..Len(chunks) :
                  /\ chunks[i].content = allSections[i].content
                  /\ chunks[i].docPath = allSections[i].docPath
                  /\ chunks[i].sectionTitle = allSections[i].sectionTitle

\* a finished build that dropped a section whose content an earlier file
\* had under another title, and kept two sections of one title
C5_Witness ==
    /\ bpc = "done"
    /\ LET all == ParsedSections(files)
       IN  /\ \E i, j \in 1..Len(all) :
                 /\ i < j
                 /\ all[i].content = all[j].content
                 /\ all[i].sectionTitle # all[j].sectionTitle
                 /\ all[i].docPath # all[j].docPath
                 /\ \A k \in 1..Len(chunks) :
                        chunks[k].content = all[i].content
                            => /\ chunks[k].docPath = all[i].docPath
                               /\ chunks[k].sectionTitle = all[i].sectionTitle
           /\ \E k, l \in 1..Len(chunks) :
                 /\ k # l
                 /\ chunks[k].sectionTitle = chunks[l].sectionTitle
                 /\ chunks[k].content # chunks[l].content

\* the file list without the files whose parse throws
RECURSIVE WithoutFailing(_)
WithoutFailing(fs) ==
    IF fs = <<>> THEN <<>>
    ELSE (IF FileOutcome(Head(fs), pandocInstalled) = "parseFailed"
          THEN <<>> ELSE <<Head(fs)>>)
         \o WithoutFailing(Tail(fs))

\* C10: a file whose parse throws does not make buildPackage throw (the
\* build returns its result), none of its sections is inserted, and the
\* kept sections, their order and the dedup set are those of a build of the
\* same list without the failing files.
C10_FailingFileLeavesNoTrace ==
    bpc = "done" =>
        LET alone == BuildSections(WithoutFailing(files), pandocInstalled)
        IN  /\ buildResult # <<>>
            /\ allSections = alone.kept
            /\ seenHashes = alone.seen
            /\ chunks = InsertAll(alone.kept)
            /\ \A i \in 1..Len(files) :
                   FileOutcome(files[i], pandocInstalled) = "parseFailed"
                       => \A k \in 1..Len(chunks) : chunks[k].docPath # files[i].path

\* a finished build whose first file failed to parse and whose second file
\* has a heading of the same content, which was kept
C10_Witness ==
    /\ bpc = "done"
    /\ Len(files) >= 2
    /\ FileOutcome(files[1], pandocInstalled) = "parseFailed"
    /\ FileOutcome(files[2], pandocInstalled) = "parsed"
    /\ files[1].nodes = files[2].nodes
    /\ \E k \in 1..Len(chunks) : chunks[k].docPath = files[2].path

-----------------------------------------------------------------------------
(* Claims about parseMarkdown *)

\* the sections emitted so far by the running or finished parse
Emitted == loopState.sections

\* C1: every Section emitted by parseMarkdown has tokens <= HARD_LIMIT_TOKENS
\* (1200), whatever the sizes of its paragraphs, code blocks and lines.
C1_NoSectionAboveHardLimit ==
    \A i \in 1..Len(Emitted) : Emitted[i].tokens <= HARD_LIMIT_TOKENS

\* C8: every Section emitted by parseMarkdown, directly or as a part of a
\* split heading, has non-empty content and a token count (the estimate of
\* that content) of at least MIN_CHUNK_TOKENS (5).
C8_EverySectionAtLeastMin ==
    \A i \in 1..Len(Emitted) :
        /\ Emitted[i].content # <<>>
        /\ TextLen(Emitted[i].content) > 0
        /\ Emitted[i].tokens = estimateTokens(TextLen(Emitted[i].content))
        /\ Emitted[i].tokens >= MIN_CHUNK_TOKENS

\* the contents of a list of sections, joined
RECURSIVE AllContent(_)
AllContent(sections) ==
    IF sections = <<>> THEN <<>>
    ELSE Head(sections).content \o AllContent(Tail(sections))

\* a step that saves the section of the heading that just ended
IsSaveStep ==
    /\ ppc = "loop"
    /\ \/ nodeIdx > Len(doc.nodes)
       \/ /\ nodeIdx <= Len(doc.nodes)
          /\ doc.nodes[nodeIdx].type = "heading"
          /\ doc.nodes[nodeIdx].depth = 2

\* the cleaned content of the heading being collected
HeadingCleaned ==
    cleanMdxContent(astToMarkdown(loopState.currentNodes, doc.nodes))

\* the heading being collected has content over MAX_CHUNK_TOKENS and is kept
HeadingIsSplit ==
    /\ loopState.currentH2 # <<>>
    /\ ~isTableOfContents(loopState.currentH2, HeadingCleaned)
    /\ estimateTokens(TextLen(HeadingCleaned)) > MAX_CHUNK_TOKENS

\* the lines of the sections a step adds
NewLines ==
    Flatten(AllContent(SubSeq(loopState'.sections, Len(loopState.sections) + 1,
                              Len(loopState'.sections))))

RECURSIVE IsSubsequence(_, _)
IsSubsequence(a, b) ==
    IF a = <<>> THEN TRUE
    ELSE IF b = <<>> THEN FALSE
    ELSE IF Head(a) = Head(b) THEN IsSubsequence(Tail(a), Tail(b))
    ELSE IsSubsequence(a, Tail(b))

\* a line that alone estimates to MIN_CHUNK_TOKENS or more
IsLongLine(line) == estimateTokens(line.len) >= MIN_CHUNK_TOKENS
NotTagLine(line) == line.kind # "tag"

\* the lines of the heading's cleaned content; a tag that only the second
\* cleaning pass (createSection's) removes is markup, not content
HeadingLines == SelectSeq(Flatten(HeadingCleaned), NotTagLine)

\* C7 as stated: the Sections emitted for a heading whose cleaned content
\* exceeds MAX_CHUNK_TOKENS, concatenated in part order, are the cleaned
\* content line for line: nothing missing, repeated or reordered.
C7_PartsReconstructContent ==
    [][ (IsSaveStep /\ HeadingIsSplit) => NewLines = HeadingLines ]_vars

\* C7 amended: the emitted parts hold lines of the cleaned content in their
\* order, none twice, and every line that estimates to MIN_CHUNK_TOKENS or
\* more (and is not a tag left for the second cleaning pass) is among them:
\* only pieces below MIN_CHUNK_TOKENS and such tags are missing.
C7_PartsReconstructButSmallPieces ==
    [][ (IsSaveStep /\ HeadingIsSplit) =>
            /\ IsSubsequence(NewLines, HeadingLines)
            /\ SelectSeq(NewLines, IsLongLine) = SelectSeq(HeadingLines, IsLongLine)
      ]_vars

\* a document of one H2 heading and blocks
OneHeadingDoc ==
    /\ Len(doc.nodes) >= 2
    /\ doc.nodes[1].type = "heading" /\ doc.nodes[1].depth = 2
    /\ \A i \in 2..Len(doc.nodes) : doc.nodes[i].type = "block"

DocCleaned == cleanMdxContent(SourceSlice(doc.nodes, 2, Len(doc.nodes)))

\* an oversized heading was split, parts were emitted and a piece below
\* MIN_CHUNK_TOKENS was dropped
C7_Witness ==
    /\ ppc = "done"
    /\ OneHeadingDoc
    /\ estimateTokens(TextLen(DocCleaned)) > MAX_CHUNK_TOKENS
    /\ Len(parsed) >= 2
    /\ Len(Flatten(AllContent(parsed)))
           < Len(SelectSeq(Flatten(DocCleaned), NotTagLine))

\* a split heading emitted a 5-token part and an 801-token part and dropped
\* a piece of 4 tokens
C8_Witness ==
    /\ ppc = "done"
    /\ OneHeadingDoc
    /\ \E i \in 1..Len(parsed) : parsed[i].tokens = MIN_CHUNK_TOKENS
    /\ \E i \in 1..Len(parsed) : parsed[i].tokens > MAX_CHUNK_TOKENS
    /\ \E i \in 2..Len(doc.nodes) :
           /\ estimateTokens(TextLen(cleanMdxContent(doc.nodes[i].text))) < MIN_CHUNK_TOKENS
    /\ Len(Flatten(AllContent(parsed))) < Len(Flatten(DocCleaned))

-----------------------------------------------------------------------------
(* search.ts: the retrieval pipeline.  Strings are sequences of atoms: a   *)
(* word, a white-space character (" " or "\n"), a double quote, any other  *)
(* character ("-"), and the separators " > " and " / " the code inserts.   *)

MAX_TOKENS == 2000
RELEVANCE_DROP_NUM == 1
RELEVANCE_DROP_DEN == 2

IsSpace(c) == c \in {" ", "\n"}

\* \w, \s and the double quote are kept by the first replace
IsKept(c) == ~(c = "-")

RECURSIVE TrimStart(_)
TrimStart(s) ==
    IF s = <<>> THEN <<>>
    ELSE IF IsSpace(Head(s)) THEN TrimStart(Tail(s)) ELSE s

RECURSIVE TrimEnd(_)
TrimEnd(s) ==
    IF s = <<>> THEN <<>>
    ELSE IF IsSpace(s[Len(s)]) THEN TrimEnd(SubSeq(s, 1, Len(s) - 1)) ELSE s

Trim(s) == TrimEnd(TrimStart(s))

\* .replace(/[^\w\s"]/g, " ")
ReplaceSpecial(s) == [i \in 1..Len(s) |-> IF IsKept(s[i]) THEN s[i] ELSE " "]

\* .replace(/\s+/g, " ")
RECURSIVE CollapseSpaces(_)
CollapseSpaces(s) ==
    IF s = <<>> THEN <<>>
    ELSE IF IsSpace(Head(s))
         THEN <<" ">> \o CollapseSpaces(TrimStart(s))
         ELSE <<Head(s)>> \o CollapseSpaces(Tail(s))

buildQuery(t) == Trim(CollapseSpaces(ReplaceSpecial(Trim(t))))

RECURSIVE CountQuotes(_)
CountQuotes(s) ==
    IF s = <<>> THEN 0
    ELSE (IF Head(s) = "\"" THEN 1 ELSE 0) + CountQuotes(Tail(s))

\* stmt.all(ftsQuery) raises an FTS5 syntax error on an unterminated string
MatchThrows(q) == CountQuotes(q) % 2 = 1

\* the rows of one result row of the statement: the chunk's columns and a score
MkMatch(row, score) ==
    [id |-> row.id, docPath |-> row.docPath, docTitle |-> row.docTitle,
     sectionTitle |-> row.sectionTitle, content |-> row.content,
     tokens |-> row.tokens, score |-> score]

\* mutant of filterByRelevance: > in place of >=
filterByRelevance_Strict(ms) ==
    IF ms = <<>> THEN <<>>
    ELSE LET topScore == ms[1].score
             Keep(m) == m.score * RELEVANCE_DROP_DEN > topScore * RELEVANCE_DROP_NUM
         IN  SelectSeq(ms, Keep)

filterByRelevance(ms) ==
    IF ms = <<>> THEN <<>>
    ELSE LET topScore == ms[1].score
             Keep(m) == m.score * RELEVANCE_DROP_DEN >= topScore * RELEVANCE_DROP_NUM
         IN  SelectSeq(ms, Keep)

RECURSIVE BudgetLoop(_, _, _, _)
BudgetLoop(ms, i, result, totalTokens) ==
    IF i > Len(ms) THEN result
    ELSE IF totalTokens + ms[i].tokens > MAX_TOKENS THEN result
    ELSE BudgetLoop(ms, i + 1, Append(result, ms[i]), totalTokens + ms[i].tokens)

\* mutant of applyTokenBudget: `continue` in place of `break`
RECURSIVE BudgetLoop_Continue(_, _, _, _)
BudgetLoop_Continue(ms, i, result, totalTokens) ==
    IF i > Len(ms) THEN result
    ELSE IF totalTokens + ms[i].tokens > MAX_TOKENS
         THEN BudgetLoop_Continue(ms, i + 1, result, totalTokens)
    ELSE BudgetLoop_Continue(ms, i + 1, Append(result, ms[i]), totalTokens + ms[i].tokens)

applyTokenBudget_SkipAhead(ms) == BudgetLoop_Continue(ms, 1, <<>>, 0)

\* mutant of applyTokenBudget: every candidate is taken
applyTokenBudget_NoLimit(ms) == ms

applyTokenBudget(ms) == BudgetLoop(ms, 1, <<>>, 0)

\* chunks.sort((a, b) => a.id - b.id); ids are row ids, hence distinct
RECURSIVE SortById(_)
SortById(cs) ==
    IF cs = <<>> THEN <<>>
    ELSE LET m == CHOOSE i \in 1..Len(cs) : \A j \in 1..Len(cs) : cs[i].id <= cs[j].id
             Rest(c) == c.id # cs[m].id
         IN  <<cs[m]>> \o SortById(SelectSeq(cs, Rest))

\* mutant of groupByDocument: the groups are left in score order
groupByDocument_NoSort(ms) ==
    [d \in {ms[i].docPath : i \in 1..Len(ms)} |->
        LET InDoc(m) == m.docPath = d IN SelectSeq(ms, InDoc)]

\* the Map of groupByDocument, as a function of the document path
groupByDocument(ms) ==
    [d \in {ms[i].docPath : i \in 1..Len(ms)} |->
        LET InDoc(m) == m.docPath = d IN SortById(SelectSeq(ms, InDoc))]

cloneChunk(chunk) == MkMatch(chunk, chunk.score)

\* the loop of mergeAdjacentChunks; current.id is never reassigned on a merge
RECURSIVE MergeLoop(_, _, _, _)
MergeLoop(cs, i, current, merged) ==
    IF i > Len(cs) THEN Append(merged, current)
    ELSE LET next == cs[i] IN
         IF next.id = current.id + 1
         THEN MergeLoop(cs, i + 1,
                        [current EXCEPT
                            !.sectionTitle = @ \o <<" / ">> \o next.sectionTitle,
                            !.content = @ \o <<"\n", "\n">> \o next.content,
                            !.tokens = @ + next.tokens],
                        merged)
         ELSE MergeLoop(cs, i + 1, cloneChunk(next), Append(merged, current))

\* mutant of mergeAdjacentChunks: every chunk of the group is merged
RECURSIVE MergeLoop_All(_, _, _)
MergeLoop_All(cs, i, current) ==
    IF i > Len(cs) THEN <<current>>
    ELSE MergeLoop_All(cs, i + 1,
                       [current EXCEPT
                           !.sectionTitle = @ \o <<" / ">> \o cs[i].sectionTitle,
                           !.content = @ \o <<"\n", "\n">> \o cs[i].content,
                           !.tokens = @ + cs[i].tokens])

mergeAdjacentChunks_MergeAll(cs) ==
    IF Len(cs) <= 1 THEN cs ELSE MergeLoop_All(cs, 2, cloneChunk(cs[1]))

\* mergeAdjacentChunks without the final merged.push(current)
mergeAdjacentChunks_NoLastPush(cs) ==
    IF Len(cs) <= 1 THEN cs
    ELSE LET merged == MergeLoop(cs, 2, cloneChunk(cs[1]), <<>>)
         IN  SubSeq(merged, 1, Len(merged) - 1)

mergeAdjacentChunks(cs) ==
    IF Len(cs) <= 1 THEN cs ELSE MergeLoop(cs, 2, cloneChunk(cs[1]), <<>>)

\* [...new Set(matches.map((m) => m.docPath))]: paths by first appearance
RECURSIVE DocOrder(_, _)
DocOrder(ms, i) ==
    IF i > Len(ms) THEN <<>>
    ELSE (IF \E j \in 1..(i - 1) : ms[j].docPath = ms[i].docPath
          THEN <<>> ELSE <<ms[i].docPath>>) \o DocOrder(ms, i + 1)

MkSnippet(chunk) ==
    [title |-> chunk.docTitle \o <<" > ">> \o chunk.sectionTitle,
     content |-> chunk.content,
     source |-> chunk.docPath]

RECURSIVE AssembleDocs(_, _)
AssembleDocs(byDoc, docOrder) ==
    IF docOrder = <<>> THEN <<>>
    ELSE LET merged == mergeAdjacentChunks(byDoc[Head(docOrder)])
         IN  [i \in 1..Len(merged) |-> MkSnippet(merged[i])]
             \o AssembleDocs(byDoc, Tail(docOrder))

assembleResults(ms) == AssembleDocs(groupByDocument(ms), DocOrder(ms, 1))

\* the key of a snippet: the digest of `${title}\n${content}`; the 16 hex
\* digits of MD5 are taken as collision-free on the concatenated string
ResultKey(result) == [md5 |-> result.title \o <<"\n">> \o result.content]

RECURSIVE DedupLoop(_, _, _, _)
DedupLoop(rs, i, seen, deduplicated) ==
    IF i > Len(rs) THEN deduplicated
    ELSE IF ResultKey(rs[i]) \in seen
         THEN DedupLoop(rs, i + 1, seen, deduplicated)
         ELSE DedupLoop(rs, i + 1, seen \cup {ResultKey(rs[i])},
                        Append(deduplicated, rs[i]))

deduplicateResults(rs) == DedupLoop(rs, 1, {}, <<>>)

\* searchFts: `if (!ftsQuery) return []`
ShortCircuits_Never(q) == FALSE

ShortCircuits(q) == q = <<>>

-----------------------------------------------------------------------------
(* Inputs of the search: a chunks table, a topic, and what the MATCH        *)
(* statement returns (any rows of the table, best score first).             *)

MaxChunks == 4
MaxMatches == 3

\* bm25 scores, scaled to integers; 5 is exactly half of 10
Scores == {10, 5, 4}

\* (sectionTitle, content, tokens) of the first and of the last row:
\* the same title with different contents, the same content under different
\* titles, a title holding a line break (a setext heading of two lines),
\* and sections at the hard limit and at the target size
RowShapes ==
    { [sectionTitle |-> <<"x">>, content |-> <<"y", "\n", "z">>, tokens |-> 5],
      [sectionTitle |-> <<"x", "\n", "y">>, content |-> <<"z">>, tokens |-> 5],
      [sectionTitle |-> <<"x">>, content |-> <<"z">>, tokens |-> 5],
      [sectionTitle |-> <<"x">>, content |-> <<"Z">>, tokens |-> 1200],
      [sectionTitle |-> <<"w">>, content |-> <<"V">>, tokens |-> 800] }

\* the shape of a row in between: a title and a content of its own
OwnShape(id) ==
    [sectionTitle |-> <<"s", ToString(id)>>, content |-> <<"c", ToString(id)>>,
     tokens |-> 5]

\* rows 1..split belong to a.md, the others to b.md; both documents carry
\* the same document title
MkDb(split, first, last) ==
    [id \in 1..MaxChunks |->
        LET shape == IF id = 1 THEN first
                     ELSE IF id = MaxChunks THEN last ELSE OwnShape(id)
        IN  [id |-> id,
             docPath |-> IF id <= split THEN "a.md" ELSE "b.md",
             docTitle |-> <<"D">>,
             sectionTitle |-> shape.sectionTitle,
             content |-> shape.content,
             tokens |-> shape.tokens]]

SearchDbs ==
    { MkDb(split, first, last) :
          split \in 2..MaxChunks, first \in RowShapes, last \in RowShapes }

SearchTopics ==
    { <<>>, <<" ">>, <<" ", "\n", " ">>, <<"-">>, <<" ", "-", "-", "\n">>,
      <<"a">>, <<" ", "a", "-", "b", "\n">>, <<"\"", "a", " ", "b", "\"">>,
      <<"a", "\"">> }

\* the rows a MATCH can return: distinct rows, ORDER BY score DESC, at most
\* MaxMatches of them (the statement's LIMIT is 20)
MatchLists(d) ==
    UNION { { [i \in 1..k |-> MkMatch(d[ids[i]], sc[i])] :
                ids \in { f \in [1..k -> 1..Len(d)] :
                            \A i, j \in 1..k : i # j => f[i] # f[j] },
                sc \in { g \in [1..k -> Scores] :
                            \A i \in 1..(k - 1) : g[i] >= g[i + 1] } } :
            k \in 0..MaxMatches }

-----------------------------------------------------------------------------
(* search, one call (SearchSpec) *)

SearchInit ==
    /\ db \in SearchDbs
    /\ topic = <<>>
    /\ executed = FALSE
    /\ matches = <<>>
    /\ filtered = <<>>
    /\ budgeted = <<>>
    /\ assembled = <<>>
    /\ results = <<>>
    /\ spc = "ready"
    /\ ParseIdle
    /\ BuildIdle
    /\ OtherIdle

\* mutant of Pipeline: the seen set of deduplicateResults outlives the call
\* (a module-level set): the keys of the previous results are still in it
Pipeline_SeenKept(ms) ==
    /\ matches' = ms
    /\ filtered' = filterByRelevance(ms)
    /\ budgeted' = applyTokenBudget(filtered')
    /\ assembled' = assembleResults(budgeted')
    /\ results' = DedupLoop(assembled', 1,
                            {ResultKey(results[i]) : i \in 1..Len(results)}, <<>>)
    /\ spc' = "done"

\* search() from the value searchFts returned to the SearchResult
Pipeline(ms) ==
    /\ matches' = ms
    /\ filtered' = filterByRelevance(ms)
    /\ budgeted' = applyTokenBudget(filtered')
    /\ assembled' = assembleResults(budgeted')
    /\ results' = deduplicateResults(assembled')
    /\ spc' = "done"

\* the sanitized topic is empty: searchFts returns [] before db.prepare
SearchEmptyQuery ==
    /\ spc = "ready"
    /\ \E t \in SearchTopics :
          /\ ShortCircuits(buildQuery(t))
          /\ topic' = t
          /\ executed' = FALSE
          /\ Pipeline(<<>>)
    /\ UNCHANGED db
    /\ UNCHANGED <<parseVars, buildVars, otherVars>>

\* the statement runs and FTS5 rejects the query: search throws
SearchSyntaxError ==
    /\ spc = "ready"
    /\ \E t \in SearchTopics :
          /\ ~ShortCircuits(buildQuery(t))
          /\ MatchThrows(buildQuery(t))
          /\ topic' = t
    /\ executed' = TRUE
    /\ spc' = "threw"
    /\ UNCHANGED <<db, matches, filtered, budgeted, assembled, results>>
    /\ UNCHANGED <<parseVars, buildVars, otherVars>>

\* the statement runs and returns rows
SearchMatch ==
    /\ spc = "ready"
    /\ \E t \in SearchTopics :
          /\ ~ShortCircuits(buildQuery(t))
          /\ ~MatchThrows(buildQuery(t))
          /\ topic' = t
    /\ executed' = TRUE
    /\ \E ms \in MatchLists(db) : Pipeline(ms)
    /\ UNCHANGED db
    /\ UNCHANGED <<parseVars, buildVars, otherVars>>

SearchNext == SearchEmptyQuery \/ SearchSyntaxError \/ SearchMatch

SearchSpec == SearchInit /\ [][SearchNext]_vars

-----------------------------------------------------------------------------
(* searches one after the other on one opened package (SessionSpec).       *)
(* search is synchronous, so concurrent requests interleave as whole       *)
(* calls; the locals of a finished call stay in the variables until the    *)
(* next call assigns them.                                                 *)

\* the packages of the session: two chunks, of one document or of two
SessionDbs ==
    { SubSeq(MkDb(split, first, first), 1, 2) : split \in 1..2, first \in RowShapes }

SessionInit ==
    /\ db \in SessionDbs
    /\ topic = <<>>
    /\ executed = FALSE
    /\ matches = <<>>
    /\ filtered = <<>>
    /\ budgeted = <<>>
    /\ assembled = <<>>
    /\ results = <<>>
    /\ spc = "ready"
    /\ ParseIdle
    /\ BuildIdle
    /\ OtherIdle

\* search has returned or thrown; the server handles the next request
NextCall ==
    /\ spc \in {"done", "threw"}
    /\ spc' = "ready"
    /\ UNCHANGED <<db, topic, executed, matches, filtered, budgeted, assembled, results>>
    /\ UNCHANGED <<parseVars, buildVars, otherVars>>

SessionNext == SearchEmptyQuery \/ SearchSyntaxError \/ SearchMatch \/ NextCall

SessionSpec == SessionInit /\ [][SessionNext]_vars

-----------------------------------------------------------------------------
(* Claims about search *)

Returned == spc = "done"

RECURSIVE SumTok(_)
SumTok(ms) == IF ms = <<>> THEN 0 ELSE Head(ms).tokens + SumTok(Tail(ms))

\* the i-th smallest element of a set of indices
Nth(S, i) == CHOOSE k \in S : Cardinality({j \in S : j < k}) = i - 1

\* the elements of seq at the indices of S, in order
Pick(seq, S) == [i \in 1..Cardinality(S) |-> seq[Nth(S, i)]]

\* C4: the relevance filter keeps exactly the candidates whose score is at
\* least half the score of the first candidate, in their original order,
\* and returns the empty list when there are no candidates.
C4_KeepsCandidatesAtLeastHalfTop ==
    Returned =>
        /\ (matches = <<>> => filtered = <<>>)
        /\ filtered = Pick(matches, {i \in 1..Len(matches) :
                                        2 * matches[i].score >= matches[1].score})

\* C4 witness: a list whose second score is exactly half the first (kept)
\* and whose third is below half (dropped)
C4_Witness ==
    /\ Returned
    /\ Len(matches) = 3
    /\ 2 * matches[2].score = matches[1].score
    /\ 2 * matches[3].score < matches[1].score
    /\ Len(filtered) = 2

\* the length of the longest prefix of ms whose tokens sum to at most limit
LongestPrefix(ms, limit) ==
    CHOOSE k \in 0..Len(ms) :
        /\ SumTok(SubSeq(ms, 1, k)) <= limit
        /\ \A n \in (k + 1)..Len(ms) : SumTok(SubSeq(ms, 1, n)) > limit

\* C3: the budget selector returns exactly the longest prefix of the filtered
\* list whose token counts sum to at most 2000; nothing after the first
\* candidate that does not fit is included, even one that would fit.
C3_BudgetIsLongestPrefix ==
    Returned => budgeted = SubSeq(filtered, 1, LongestPrefix(filtered, 2000))

\* C3 witness: the second candidate does not fit, the third one would have
C3_Witness ==
    /\ Returned
    /\ Len(filtered) = 3
    /\ Len(budgeted) = 1
    /\ filtered[1].tokens + filtered[2].tokens > 2000
    /\ filtered[1].tokens + filtered[3].tokens <= 2000

OnlyBlank(t) == \A i \in 1..Len(t) : t[i] \in {" ", "\n", "-"}

\* C9: for a topic holding only white space and characters other than word
\* characters and double quotes, search returns an empty results list and
\* the MATCH statement is never executed.
C9_EmptyTopicNeverQueries ==
    (spc # "ready" /\ OnlyBlank(topic)) =>
        /\ spc = "done"
        /\ results = <<>>
        /\ ~executed

\* C9 witness: a search for white space and punctuation has returned
C9_Witness ==
    /\ spc = "done"
    /\ OnlyBlank(topic)
    /\ \E i \in 1..Len(topic) : topic[i] = "-"
    /\ \E i \in 1..Len(topic) : topic[i] = " "
    /\ results = <<>>

\* the maximal runs of consecutive ids of a list sorted by id, in order
RECURSIVE Runs(_, _)
Runs(sorted, from) ==
    IF from > Len(sorted) THEN <<>>
    ELSE LET last == CHOOSE e \in from..Len(sorted) :
                        /\ \A i \in from..(e - 1) : sorted[i + 1].id = sorted[i].id + 1
                        /\ (e < Len(sorted) => sorted[e + 1].id # sorted[e].id + 1)
         IN  <<SubSeq(sorted, from, last)>> \o Runs(sorted, last + 1)

RECURSIVE JoinWith(_, _)
JoinWith(strs, sep) ==
    IF Len(strs) = 1 THEN strs[1]
    ELSE strs[1] \o sep \o JoinWith(Tail(strs), sep)

\* the one snippet of a run
RunSnippet(run) ==
    [title |-> run[1].docTitle \o <<" > ">>
                 \o JoinWith([i \in 1..Len(run) |-> run[i].sectionTitle], <<" / ">>),
     content |-> JoinWith([i \in 1..Len(run) |-> run[i].content], <<"\n", "\n">>),
     source |-> run[1].docPath]

RECURSIVE RunSnippets(_, _)
RunSnippets(ms, docOrder) ==
    IF docOrder = <<>> THEN <<>>
    ELSE LET runs == Runs(groupByDocument(ms)[Head(docOrder)], 1)
         IN  [i \in 1..Len(runs) |-> RunSnippet(runs[i])]
             \o RunSnippets(ms, Tail(docOrder))

\* C2: within one document group sorted by chunk id, every maximal run of
\* selected chunks with consecutive ids, of any length, becomes exactly one
\* snippet: section titles joined with " / ", contents joined with a blank
\* line, in id order.
C2_EveryRunIsOneSnippet ==
    Returned => assembled = RunSnippets(budgeted, DocOrder(budgeted, 1))

\* runs of at most two chunks are merged as C2 says
C2_RunsOfTwoAreOneSnippet ==
    (Returned /\ \A i, j \in 1..Len(budgeted) :
                    budgeted[i].docPath = budgeted[j].docPath
                        => budgeted[i].id - budgeted[j].id # 2
                           \/ \A k \in 1..Len(budgeted) :
                                 budgeted[k].id # budgeted[j].id + 1
                                 \/ budgeted[k].docPath # budgeted[j].docPath)
        => assembled = RunSnippets(budgeted, DocOrder(budgeted, 1))

SamePair(a, b) == a.title = b.title /\ a.content = b.content

\* C6: the final results hold no two snippets with the same (title, content)
\* pair; of the assembled snippets sharing a pair exactly the earliest one
\* survives, and the survivors keep their relative order.
C6_FirstOfEachPairSurvives ==
    Returned =>
        /\ \A i, j \in 1..Len(results) : i < j => ~SamePair(results[i], results[j])
        /\ results = Pick(assembled,
                          {i \in 1..Len(assembled) :
                              \A j \in 1..(i - 1) : ~SamePair(assembled[j], assembled[i])})

\* the first clause of C6 alone
C6_NoTwoResultsShareAPair ==
    Returned =>
        \A i, j \in 1..Len(results) : i < j => ~SamePair(results[i], results[j])

-----------------------------------------------------------------------------
(* Claims about the assembly of snippets *)

\* the snippets of a group sorted by id when it is cut after the positions
\* of cuts: one snippet per segment
CutSnippets(sorted, cuts) ==
    LET starts == {1} \cup {c + 1 : c \in cuts}
        EndOf(k) == IF k = Cardinality(starts) THEN Len(sorted)
                    ELSE Nth(starts, k + 1) - 1
    IN  [k \in 1..Cardinality(starts) |->
            RunSnippet(SubSeq(sorted, Nth(starts, k), EndOf(k)))]

\* the cuts that leave only consecutive ids inside a segment
AdjacentCuts(sorted) ==
    { cuts \in SUBSET (1..(Len(sorted) - 1)) :
        \A i \in 1..(Len(sorted) - 1) :
            sorted[i + 1].id # sorted[i].id + 1 => i \in cuts }

\* every snippet list that combines only adjacent chunks of one document
RECURSIVE AdjacentAssemblies(_, _)
AdjacentAssemblies(ms, docOrder) ==
    IF docOrder = <<>> THEN { <<>> }
    ELSE LET InDoc(m) == m.docPath = Head(docOrder)
             sorted == SortById(SelectSeq(ms, InDoc))
         IN  { CutSnippets(sorted, cuts) \o rest :
                   cuts \in AdjacentCuts(sorted),
                   rest \in AdjacentAssemblies(ms, Tail(docOrder)) }

\* C11: a snippet never combines chunks that are not adjacent: the chunks of
\* one snippet have one docPath and ids that each are 1 more than the
\* previous; selected chunks of a document whose ids differ by more than 1
\* with nothing selected in between are in different snippets.
C11_OnlyAdjacentChunksAreCombined ==
    Returned => assembled \in AdjacentAssemblies(budgeted, DocOrder(budgeted, 1))

\* C11 witness: chunks 1, 2 and 4 of one document are selected and give two
\* snippets
C11_Witness ==
    /\ Returned
    /\ Len(budgeted) = 3
    /\ {budgeted[i].id : i \in 1..3} = {1, 2, 4}
    /\ \A i \in 1..3 : budgeted[i].docPath = "a.md"
    /\ Len(assembled) = 2

\* the merged chunks of every document, in the order assembleResults pushes
\* their snippets
RECURSIVE MergedChunks(_, _)
MergedChunks(byDoc, docOrder) ==
    IF docOrder = <<>> THEN <<>>
    ELSE mergeAdjacentChunks(byDoc[Head(docOrder)])
         \o MergedChunks(byDoc, Tail(docOrder))

AssembledChunks == MergedChunks(groupByDocument(budgeted), DocOrder(budgeted, 1))

\* the position at which a document first appears in the selected list
FirstSelected(d) ==
    CHOOSE i \in 1..Len(budgeted) :
        /\ budgeted[i].docPath = d
        /\ \A j \in 1..(i - 1) : budgeted[j].docPath # d

\* C12: in the assembled list the snippets of one docPath are contiguous,
\* the groups are in the order in which each document first appears in the
\* selected list, and inside a group the snippets are in ascending chunk id
\* order.
C12_GroupsByFirstAppearanceThenById ==
    Returned =>
        LET cs == AssembledChunks IN
        /\ assembled = [i \in 1..Len(cs) |-> MkSnippet(cs[i])]
        /\ \A i, j \in 1..Len(cs) :
              i < j =>
                 IF cs[i].docPath = cs[j].docPath
                 THEN /\ cs[i].id < cs[j].id
                      /\ \A k \in i..j : cs[k].docPath = cs[i].docPath
                 ELSE FirstSelected(cs[i].docPath) < FirstSelected(cs[j].docPath)

\* C12 witness: b.md is selected first, then chunks of a.md with the higher
\* id first; the snippets of a.md come out in id order after that of b.md
C12_Witness ==
    /\ Returned
    /\ Len(budgeted) = 3
    /\ budgeted[1].docPath = "b.md"
    /\ budgeted[2].docPath = "a.md"
    /\ budgeted[3].docPath = "a.md"
    /\ budgeted[2].id > budgeted[3].id + 1
    /\ Len(assembled) = 3
    /\ assembled[1].source = "b.md"
    /\ assembled[2].content = budgeted[3].content

-----------------------------------------------------------------------------
(* Claims about headings *)

\* the titles that equal "table of contents", "toc", "contents" or "index"
\* up to case, as far as the documents spell them
TocTitles ==
    { <<"TOC">>, <<"toc">>, <<"Table", "Of", "Contents">>,
      <<"table", "of", "contents">>, <<"index">>, <<"Index">>,
      <<"Contents">>, <<"contents">> }

\* C13: a heading whose text equals "table of contents", "toc", "contents"
\* or "index" up to case never produces a Section, whatever its content:
\* no step adds a section while such a heading is the current one.
C13_TocHeadingEmitsNothing ==
    [][ loopState.currentH2 \in TocTitles
            => loopState'.sections = loopState.sections ]_vars

\* C13 witness: the parse has returned, the last heading was "TOC" and its
\* cleaned content was over MAX_CHUNK_TOKENS
C13_Witness ==
    /\ ppc = "done"
    /\ loopState.currentH2 = <<"TOC">>
    /\ loopState.currentNodes # <<>>
    /\ estimateTokens(TextLen(HeadingCleaned)) > MAX_CHUNK_TOKENS

IsH1Line(line) == line.kind = "h1"

\* C14: a level-1 heading is never a section boundary and never part of a
\* Section's content, wherever it stands in the document: no content
\* emitted, during the loop or returned, holds the line of an H1 heading.
\* (Only an H2 node changes the current heading, so an H1 is never a
\* boundary.)
C14_H1NeverBoundaryNorContent ==
    /\ \A i \in 1..Len(Emitted) :
          SelectSeq(Flatten(Emitted[i].content), IsH1Line) = <<>>
    /\ \A i \in 1..Len(parsed) :
          SelectSeq(Flatten(parsed[i].content), IsH1Line) = <<>>

\* an H1 before any content is skipped: it starts no section and is no
\* content
C14_LeadingH1IsSkipped ==
    [][ (ppc = "loop" /\ nodeIdx <= Len(doc.nodes)
           /\ doc.nodes[nodeIdx] = H1Node /\ loopState.currentH2 = <<>>)
            => loopState' = loopState ]_vars

IsH2(node) == node.type = "heading" /\ node.depth = 2

\* the position of the last H2 before position i, 0 when there is none
LastH2Before(i) ==
    IF \E j \in 1..(i - 1) : IsH2(doc.nodes[j])
    THEN CHOOSE j \in 1..(i - 1) :
            IsH2(doc.nodes[j]) /\ \A k \in (j + 1)..(i - 1) : ~IsH2(doc.nodes[k])
    ELSE 0

\* the sections a step adds
NewSections ==
    SubSeq(loopState'.sections, Len(loopState.sections) + 1, Len(loopState'.sections))

\* title is base, or base with a part suffix
TitledBy(title, base) ==
    /\ Len(title) \in {Len(base), Len(base) + 1}
    /\ SubSeq(title, 1, Len(base)) = base

\* the text of the H2 at position h
HeadingTextAt(h) == getHeadingText(doc.nodes[h].children)

-----------------------------------------------------------------------------
(* Claims about search as a whole *)

\* C16: for every topic, also one holding double quotes, the sanitized
\* query is empty or accepted by the MATCH statement: search never fails on
\* the syntax of the topic.
C16_SearchNeverThrowsOnTopic == spc # "threw"

\* a topic with balanced quotes is searched as a phrase and returns
C16_BalancedQuotesReturn ==
    (spc # "ready" /\ CountQuotes(topic) % 2 = 0) => spc = "done"

-----------------------------------------------------------------------------
(* Claims about the result of buildPackage *)

\* the number of files whose parse throws
RECURSIVE ParseFailures(_)
ParseFailures(fs) ==
    IF fs = <<>> THEN 0
    ELSE (IF FileOutcome(Head(fs), pandocInstalled) = "parseFailed" THEN 1 ELSE 0)
         + ParseFailures(Tail(fs))

\* the BuildResult of a build of the list fs
ResultOf(fs) ==
    LET alone == BuildSections(fs, pandocInstalled)
    IN  << [sectionCount |-> Len(alone.kept),
            totalTokens |-> SumTokens(alone.kept),
            rstSkipped |-> alone.skipped] >>

\* C17: every document that fails to parse is counted and the count is part
\* of the result buildPackage returns: the result of a build in which
\* documents failed to parse shows it, so it differs from the result of the
\* same build without these documents, and one of its numbers is the
\* number of failures.
C17_ParseFailuresAreCounted ==
    (bpc = "done" /\ ParseFailures(files) > 0) =>
        /\ buildResult # ResultOf(WithoutFailing(files))
        /\ \E f \in DOMAIN buildResult[1] : buildResult[1][f] = ParseFailures(files)

\* what the result does count: the .rst files that pandoc could not convert
C17_RstSkipsAreCounted ==
    bpc = "done" =>
        buildResult[1].rstSkipped
            = Cardinality({i \in 1..Len(files) :
                              FileOutcome(files[i], pandocInstalled) = "rstSkipped"})

-----------------------------------------------------------------------------
(* Claims about the token budget of a search *)

\* C18: the stored token counts of all chunks that contribute to the
\* snippets search returns sum to at most 2000: the selected chunks do, the
\* assembled snippets are made of the selected chunks and of nothing else
\* (their token counts add up to the same sum), and the results are
\* assembled snippets.
C18_ResultsWithinBudget ==
    Returned =>
        /\ SumTok(budgeted) <= 2000
        /\ IsSubsequence(budgeted, matches)
        /\ \A i \in 1..Len(budgeted) : \E k \in 1..Len(db) :
              budgeted[i] = MkMatch(db[k], budgeted[i].score)
        /\ assembled \in AdjacentAssemblies(budgeted, DocOrder(budgeted, 1))
        /\ LET cs == AssembledChunks
           IN  /\ assembled = [i \in 1..Len(cs) |-> MkSnippet(cs[i])]
               /\ SumTok(cs) = SumTok(budgeted)
        /\ IsSubsequence(results, assembled)

\* C18 witness: the candidates hold more than 2000 tokens, the selected ones
\* exactly 2000, and snippets were returned
C18_Witness ==
    /\ Returned
    /\ SumTok(filtered) > 2000
    /\ SumTok(budgeted) = 2000
    /\ Len(budgeted) = 2
    /\ Len(results) = 2

-----------------------------------------------------------------------------
(* Claims about what deduplicateResults keeps *)

\* C19: two assembled snippets whose (title, content) pairs differ are never
\* collapsed: the pair of every assembled snippet is the pair of a result,
\* also when two snippets share the title and differ in content or share
\* the content and differ in title.
C19_DifferentPairsAreBothKept ==
    Returned =>
        \A i \in 1..Len(assembled) :
            \E k \in 1..Len(results) : SamePair(results[k], assembled[i])

\* the two cases the claim names do hold: of two assembled snippets that
\* share the title and differ in content, or share the content and differ
\* in title, neither is dropped for the other
C19_SameTitleOrSameContentAreBothKept ==
    Returned =>
        \A i, j \in 1..Len(assembled) :
            (/\ i < j
             /\ ~SamePair(assembled[i], assembled[j])
             /\ \/ assembled[i].title = assembled[j].title
                \/ assembled[i].content = assembled[j].content)
                => ResultKey(assembled[i]) # ResultKey(assembled[j])

-----------------------------------------------------------------------------
(* Claims about searches on one package *)

\* what a search of topic t alone gives when the index answers ms: the
\* results, or <<"threw">> when the call throws
SearchedAlone(t, ms) ==
    IF buildQuery(t) = <<>> THEN <<"results", <<>>>>
    ELSE IF MatchThrows(buildQuery(t)) THEN <<"threw">>
    ELSE <<"results",
           deduplicateResults(assembleResults(applyTokenBudget(filterByRelevance(ms))))>>

\* the outcome of the call that just ended
Outcome(pc, rs) == IF pc = "threw" THEN <<"threw">> ELSE <<"results", rs>>

\* C20: search never modifies the index and keeps no state between calls:
\* in every sequence of searches on one package, every step leaves the
\* package as it is and every call ends as the same topic searched alone
\* ends (given what the index answers), whatever was searched before.
C20_SearchIsReadOnlyAndStateless ==
    [][ /\ db' = db
        /\ chunks' = chunks
        /\ (spc = "ready" /\ spc' # "ready")
              => /\ Outcome(spc', results') = SearchedAlone(topic', matches')
                 /\ (buildQuery(topic') = <<>> => ~executed')
      ]_vars

\* C20 witness: a search has returned two snippets, and the next search of
\* the session, of another topic, has thrown: the locals of the first call
\* are still there
C20_Witness ==
    /\ spc = "threw"
    /\ topic = <<"a", "\"">>
    /\ Len(matches) = 2
    /\ Len(results) = 2

-----------------------------------------------------------------------------
(* two buildPackage calls on different output paths (PairSpec).  Each call *)
(* creates its own database file and declares allSections, seenHashes and  *)
(* rstSkipped as locals; the only state outside the call is the cached     *)
(* answer of isPandocAvailable.  The file-loop iterations of the two calls *)
(* are interleaved in every order.                                         *)

MaxPairFiles == 2

\* two titles over one content
PairNodes == { <<H2("A"), Block(<<TextLine(17)>>)>>, <<H2("B"), Block(<<TextLine(17)>>)>> }

\* md that parses, rst that pandoc converts when it is installed
PairModes ==
    { [rst |-> FALSE, yaml |-> "none", convertible |-> TRUE],
      [rst |-> TRUE, yaml |-> "none", convertible |-> TRUE] }

\* the files' modes and contents: both contents as md, one of them as rst
PairShapes ==
    { <<m, n>> \in PairModes \X PairNodes : m.rst => n[1] = H2("A") }

PairFileLists(n) ==
    UNION { { [i \in 1..k |-> MkFile(i, sh[i][1], sh[i][2])] : sh \in [1..k -> PairShapes] } :
            k \in 1..n }

\* the state of a call after `new Database(outputPath)` and the schema
NewBuild(fs) ==
    [files |-> fs, fileIdx |-> 1, seenHashes |-> {}, allSections |-> <<>>,
     rstSkipped |-> 0, chunks |-> <<>>, pc |-> "loop"]

PairInit ==
    /\ builds \in [1..2 -> { NewBuild(fs) : fs \in PairFileLists(MaxPairFiles) }]
    /\ pandocInstalled \in BOOLEAN
    /\ pandocAvailable = "unknown"
    /\ files = <<>>
    /\ fileIdx = 0
    /\ seenHashes = {}
    /\ allSections = <<>>
    /\ rstSkipped = 0
    /\ chunks = <<>>
    /\ buildResult = <<>>
    /\ bpc = "idle"
    /\ ParseIdle
    /\ SearchIdle
    /\ StoreIdle

\* the locals of call b where seenHashes is one set for all calls
BuildLocals_SharedSeen(b) ==
    [seen |-> UNION { builds[c].seenHashes : c \in DOMAIN builds },
     kept |-> builds[b].allSections,
     skipped |-> builds[b].rstSkipped]

\* `const allSections = []; const seenHashes = new Set(); let rstSkipped = 0`
\* of call b
BuildLocals(b) ==
    [seen |-> builds[b].seenHashes,
     kept |-> builds[b].allSections,
     skipped |-> builds[b].rstSkipped]

\* one iteration of the file loop of one of the calls
PairProcessFile ==
    \E b \in DOMAIN builds :
        /\ builds[b].pc = "loop"
        /\ builds[b].fileIdx <= Len(builds[b].files)
        /\ LET file == builds[b].files[builds[b].fileIdx]
               st == FileStep(BuildLocals(b), file, pandocInstalled)
           IN  /\ builds' = [builds EXCEPT ![b].seenHashes = st.seen,
                                           ![b].allSections = st.kept,
                                           ![b].rstSkipped = st.skipped,
                                           ![b].fileIdx = @ + 1]
               /\ pandocAvailable' = IF file.rst THEN PandocChecked ELSE pandocAvailable
        /\ UNCHANGED <<files, pandocInstalled, fileIdx, seenHashes, allSections,
                       rstSkipped, chunks, buildResult, bpc>>
        /\ UNCHANGED <<parseVars, searchVars, storeVars>>

\* the transaction of one of the calls inserts its allSections into its own
\* table
PairInsertAll ==
    \E b \in DOMAIN builds :
        /\ builds[b].pc = "loop"
        /\ builds[b].fileIdx > Len(builds[b].files)
        /\ builds' = [builds EXCEPT ![b].chunks = InsertAll(builds[b].allSections),
                                    ![b].pc = "done"]
        /\ UNCHANGED buildVars
        /\ UNCHANGED <<parseVars, searchVars, storeVars>>

PairNext == PairProcessFile \/ PairInsertAll

PairSpec == PairInit /\ [][PairNext]_vars

\* what call b holds when it runs alone up to the same file
BuiltAlone(b) ==
    BuildSections(SubSeq(builds[b].files, 1, builds[b].fileIdx - 1), pandocInstalled)

\* the contents of the sections call b has kept
KeptContents(b) == { builds[b].allSections[i].content : i \in DOMAIN builds[b].allSections }

\* the contents of the files call b has parsed
ParsedContents(b) ==
    { s.content : s \in UNION { { parseMarkdown(builds[b].files[i])[j] :
                                      j \in DOMAIN parseMarkdown(builds[b].files[i]) } :
                                  i \in { i \in 1..(builds[b].fileIdx - 1) :
                                            FileOutcome(builds[b].files[i], pandocInstalled) = "parsed" } } }

\* C21: at every point of every interleaving of the file loops of two
\* builds, each build has kept the sections, seen the hashes and counted
\* the skips it has when it runs alone on the files it has processed; a
\* finished build has the chunk ids of the build run alone; and a content
\* a build has parsed is among its kept sections, whatever the other build
\* has kept.
C21_BuildsAreIndependent ==
    \A b \in DOMAIN builds :
        /\ builds[b].allSections = BuiltAlone(b).kept
        /\ builds[b].seenHashes = BuiltAlone(b).seen
        /\ builds[b].rstSkipped = BuiltAlone(b).skipped
        /\ builds[b].pc = "done" => builds[b].chunks = InsertAll(BuiltAlone(b).kept)
        /\ ParsedContents(b) \subseteq KeptContents(b)

\* C21 witness: both builds are in the middle of their file loops and both
\* have kept a section with the same content
C21_Witness ==
    /\ DOMAIN builds = 1..2
    /\ \A b \in 1..2 : builds[b].pc = "loop" /\ builds[b].fileIdx = 2 /\ Len(builds[b].files) = 2
    /\ KeptContents(1) \cap KeptContents(2) # {}

\* C21 witness at the end: both builds are done and their tables hold a
\* chunk with the same content under the same id
C21_BothDone ==
    /\ DOMAIN builds = 1..2
    /\ \A b \in 1..2 : builds[b].pc = "done"
    /\ \E i \in DOMAIN builds[1].chunks :
          /\ i \in DOMAIN builds[2].chunks
          /\ builds[1].chunks[i].content = builds[2].chunks[i].content

-----------------------------------------------------------------------------
(* PackageStore (StoreSpec).  The Map is a sequence of PackageInfo in      *)
(* insertion order: Map.set replaces the value of a present key in place   *)
(* and appends a new key, Map.delete takes the key out.  A PackageInfo is  *)
(* its name and its version.                                               *)

MaxVersions == 2

StoreNames == {"alpha", "beta", "Beta"}

PackageInfos == [name : StoreNames, version : 1..MaxVersions]

\* a.localeCompare(b) < 0: letters first, then lower case before upper case
\* ("alpha" < "beta" < "Beta"; by code units "Beta" would come first)
CollationRank(name) ==
    CASE name = "alpha" -> 1
      [] name = "beta" -> 2
      [] name = "Beta" -> 3

localeCompare(a, b) == CollationRank(a) - CollationRank(b)

NoCall == [op |-> "new", name |-> "", version |-> 0]

\* Map.has(name)
MapHas(m, name) == \E i \in DOMAIN m : m[i].name = name

\* Map.set that appends the value whether or not the key is present
MapSet_Append(m, info) == Append(m, info)

\* Map.set(info.name, info)
MapSet(m, info) ==
    IF MapHas(m, info.name)
    THEN [i \in DOMAIN m |-> IF m[i].name = info.name THEN info ELSE m[i]]
    ELSE Append(m, info)

\* Map.delete(name): the map without the key
RECURSIVE MapDelete(_, _)
MapDelete(m, name) ==
    IF m = <<>> THEN <<>>
    ELSE IF Head(m).name = name THEN MapDelete(Tail(m), name)
    ELSE <<Head(m)>> \o MapDelete(Tail(m), name)

\* Map.get(name) ?? null: <<info>>, or <<>> for null
MapGet(m, name) ==
    IF MapHas(m, name)
    THEN << m[CHOOSE i \in DOMAIN m : m[i].name = name /\ \A j \in 1..(i - 1) : m[j].name # name] >>
    ELSE <<>>

\* [...values].sort((a, b) => a.name.localeCompare(b.name)): a stable sort
RECURSIVE SortByName(_)
SortByName(infos) ==
    IF infos = <<>> THEN <<>>
    ELSE LET first == CHOOSE i \in DOMAIN infos :
                          /\ \A j \in DOMAIN infos : localeCompare(infos[i].name, infos[j].name) <= 0
                          /\ \A j \in 1..(i - 1) : localeCompare(infos[j].name, infos[i].name) # 0
             rest == [k \in 1..(Len(infos) - 1) |-> IF k < first THEN infos[k] ELSE infos[k + 1]]
         IN  <<infos[first]>> \o SortByName(rest)

StoreInit ==
    /\ packages = <<>>
    /\ lastCall = NoCall
    /\ storeRet = <<>>
    /\ builds = <<>>
    /\ ParseIdle
    /\ BuildIdle
    /\ SearchIdle

\* add(info)
StoreAdd ==
    \E info \in PackageInfos :
        /\ packages' = MapSet(packages, info)
        /\ lastCall' = [op |-> "add", name |-> info.name, version |-> info.version]
        /\ storeRet' = <<>>
        /\ UNCHANGED <<parseVars, buildVars, searchVars, builds>>

\* remove(name)
StoreRemove ==
    \E name \in StoreNames :
        /\ packages' = MapDelete(packages, name)
        /\ lastCall' = [op |-> "remove", name |-> name, version |-> 0]
        /\ storeRet' = MapHas(packages, name)
        /\ UNCHANGED <<parseVars, buildVars, searchVars, builds>>

\* get(name)
StoreGet ==
    \E name \in StoreNames :
        /\ lastCall' = [op |-> "get", name |-> name, version |-> 0]
        /\ storeRet' = MapGet(packages, name)
        /\ UNCHANGED packages
        /\ UNCHANGED <<parseVars, buildVars, searchVars, builds>>

\* list()
StoreList ==
    /\ lastCall' = [op |-> "list", name |-> "", version |-> 0]
    /\ storeRet' = SortByName(packages)
    /\ UNCHANGED packages
    /\ UNCHANGED <<parseVars, buildVars, searchVars, builds>>

StoreNext == StoreAdd \/ StoreRemove \/ StoreGet \/ StoreList

StoreSpec == StoreInit /\ [][StoreNext]_vars

\* the entries of the store under a name
EntriesOf(m, name) == { i \in DOMAIN m : m[i].name = name }

\* what get(name) answers on a store
Held(m, name) == { m[i] : i \in EntriesOf(m, name) }

\* C22 (state part): the store holds at most one PackageInfo per name
C22_OnePerName ==
    \A name \in StoreNames : Cardinality(EntriesOf(packages, name)) <= 1

\* C22: every call does what the contract says.  After add(info), the
\* store holds info and nothing else under info.name; after remove(name),
\* it holds nothing under name and the call returned true exactly when it
\* held something before; both leave the entries of every other name as
\* they were.  get(name) returns the info held under name, or null, and
\* list() returns one entry per present name, each the info held, in
\* ascending order of localeCompare; neither changes the store.  By
\* induction over the calls, get(name) is the info of the last add of that
\* name unless a remove came after it.
C22_StoreContract ==
    [][ /\ \A name \in StoreNames : Cardinality(EntriesOf(packages', name)) <= 1
        /\ \A name \in StoreNames :
              name # lastCall'.name \/ lastCall'.op \in {"get", "list"}
                  => Held(packages', name) = Held(packages, name)
        /\ lastCall'.op = "add" =>
              Held(packages', lastCall'.name) = { [name |-> lastCall'.name, version |-> lastCall'.version] }
        /\ lastCall'.op = "remove" =>
              /\ Held(packages', lastCall'.name) = {}
              /\ storeRet' = (Held(packages, lastCall'.name) # {})
        /\ lastCall'.op = "get" =>
              { storeRet'[i] : i \in DOMAIN storeRet' } = Held(packages, lastCall'.name)
        /\ lastCall'.op = "list" =>
              /\ Len(storeRet') = Cardinality({ name \in StoreNames : Held(packages, name) # {} })
              /\ \A name \in StoreNames : Held(storeRet', name) = Held(packages, name)
              /\ \A i \in 1..(Len(storeRet') - 1) :
                    localeCompare(storeRet'[i].name, storeRet'[i + 1].name) < 0
      ]_vars

\* C22 witness: list() on a store of three names, one of them added again
\* with another version, inserted in an order that is not the sorted one
C22_Witness ==
    /\ lastCall.op = "list"
    /\ Len(storeRet) = 3
    /\ storeRet # packages
    /\ \E i \in DOMAIN packages : packages[i].version = 2

\* C22 witness for remove: the call returned true and the store still holds
\* the other names
C22_Removed ==
    /\ lastCall.op = "remove"
    /\ storeRet = TRUE
    /\ Len(packages) = 2

-----------------------------------------------------------------------------
(* Part numbers of a split heading *)

\* the title of the k-th Section a split heading emits
NumberedTitle(title, k) ==
    IF k = 1 THEN title ELSE title \o <<" (part " \o ToString(k) \o ")">>

\* C23: the Sections emitted for a heading that is split are titled T,
\* "T (part 2)", ..., "T (part k)" in emission order: the first emitted
\* piece has no suffix and the numbers that follow are consecutive, also
\* when a piece below MIN_CHUNK_TOKENS was discarded between two of them.
C23_PartsAreNumberedConsecutively ==
    [][ (IsSaveStep /\ HeadingIsSplit) =>
            \A k \in 1..Len(NewSections) :
                NewSections[k].sectionTitle = NumberedTitle(loopState.currentH2, k)
      ]_vars

\* C23 witness: two paragraphs over the hard limit with a paragraph of 4
\* tokens between them: the small one is flushed and discarded, and the
\* parts before and after it are T and "T (part 2)"
C23_Witness ==
    /\ ppc = "done"
    /\ doc.nodes = <<H2("A"), Block(<<TextLine(4801)>>), Block(<<TextLine(16)>>),
                     Block(<<TextLine(4801)>>)>>
    /\ Len(parsed) = 2
    /\ parsed[1].sectionTitle = <<"A">>
    /\ parsed[2].sectionTitle = <<"A", " (part 2)">>
    /\ \A i \in 1..2 : parsed[i].content = <<<<TextLine(4801)>>>>

-----------------------------------------------------------------------------
(* Chunk ids *)

\* the position, among all parsed sections, of the first one with a content
FirstPosition(all, content) ==
    CHOOSE p \in 1..Len(all) :
        all[p].content = content /\ \A q \in 1..(p - 1) : all[q].content # content

\* C24: the ids of a finished build are 1..n, n the number of Sections that
\* survive deduplication (one per distinct content): sections that were
\* dropped as duplicates get no id and leave no gap.  Every chunk is a
\* parsed section, the first of its content, and ids increase strictly in
\* file-then-heading order of those first occurrences.
C24_IdsAreOneToNInOrder ==
    bpc = "done" =>
        LET all == ParsedSections(files)
            contents == { all[p].content : p \in 1..Len(all) }
        IN  /\ { chunks[k].id : k \in 1..Len(chunks) } = 1..Cardinality(contents)
            /\ Len(chunks) = Cardinality(contents)
            /\ \A k \in 1..Len(chunks) :
                  /\ chunks[k].content \in contents
                  /\ LET p == FirstPosition(all, chunks[k].content)
                     IN  /\ chunks[k].sectionTitle = all[p].sectionTitle
                         /\ chunks[k].docPath = all[p].docPath
            /\ \A k, l \in 1..Len(chunks) :
                  chunks[k].id < chunks[l].id
                      => FirstPosition(all, chunks[k].content)
                             < FirstPosition(all, chunks[l].content)

\* C24 witness: a finished build of two files where a duplicate was dropped
\* between two kept sections: the section after it has the next id, and the
\* chunk of the shorter content has the larger id
C24_Witness ==
    /\ bpc = "done"
    /\ Len(chunks) = 2
    /\ Len(ParsedSections(files)) >= 3
    /\ ParsedSections(files)[2].content = ParsedSections(files)[1].content
    /\ chunks[1].id = 1 /\ chunks[2].id = 2
    /\ chunks[2].docPath # chunks[1].docPath
    /\ TextLen(chunks[2].content) < TextLen(chunks[1].content)

-----------------------------------------------------------------------------
(* a package is built from one document and then searched (PackageSpec):   *)
(* the chunks table the build wrote is the table search reads.             *)

MaxHeadings == 3

\* an H2 heading with what follows it: two kept sections, a table of
\* contents, a section with the content of the first, a heading whose only
\* line has 8001 characters, and a heading that is split into a part of
\* 1201 tokens and a piece of 4 tokens
PackageUnits ==
    { <<H2("A"), Block(<<TextLine(17)>>)>>,
      <<H2("B"), Block(<<TextLine(20)>>)>>,
      <<H2Words(<<"Contents">>), Block(<<TextLine(18)>>)>>,
      <<H2("C"), Block(<<TextLine(17)>>)>>,
      <<H2("D"), Block(<<TextLine(8001)>>)>>,
      <<H2("E"), Block(<<TextLine(4801)>>), Block(<<TextLine(16)>>)>> }

RECURSIVE ConcatAll(_)
ConcatAll(seqs) == IF seqs = <<>> THEN <<>> ELSE Head(seqs) \o ConcatAll(Tail(seqs))

\* the packages of one markdown file of at most n headings
PackageFileLists(n) ==
    { << MkFile(1, [rst |-> FALSE, yaml |-> "none", convertible |-> TRUE], ConcatAll(us)) >> :
          us \in UNION { [1..k -> PackageUnits] : k \in 1..n } }

\* a line, a paragraph and a text as the string the chunks table stores
RenderLine(line) == <<line.kind \o ToString(line.len)>>

RECURSIVE RenderParagraph(_)
RenderParagraph(para) ==
    IF para = <<>> THEN <<>>
    ELSE IF Len(para) = 1 THEN RenderLine(para[1])
    ELSE RenderLine(para[1]) \o <<"\n">> \o RenderParagraph(Tail(para))

RECURSIVE RenderText(_)
RenderText(text) ==
    IF text = <<>> THEN <<>>
    ELSE IF Len(text) = 1 THEN RenderParagraph(text[1])
    ELSE RenderParagraph(text[1]) \o <<"\n", "\n">> \o RenderText(Tail(text))

\* the row searchFts selects for a row insertChunk wrote
StoredRow(chunk) ==
    [id |-> chunk.id, docPath |-> chunk.docPath, docTitle |-> chunk.docTitle,
     sectionTitle |-> chunk.sectionTitle, content |-> RenderText(chunk.content),
     tokens |-> chunk.tokens]

PackageInit ==
    /\ files \in PackageFileLists(MaxHeadings)
    /\ pandocInstalled = FALSE
    /\ fileIdx = 1
    /\ seenHashes = {}
    /\ allSections = <<>>
    /\ pandocAvailable = "unknown"
    /\ rstSkipped = 0
    /\ chunks = <<>>
    /\ buildResult = <<>>
    /\ bpc = "loop"
    /\ ParseIdle
    /\ SearchIdle
    /\ OtherIdle

\* the server opens the package the build has written
OpenPackage ==
    /\ bpc = "done"
    /\ spc = "idle"
    /\ db' = [i \in 1..Len(chunks) |-> StoredRow(chunks[i])]
    /\ spc' = "ready"
    /\ UNCHANGED <<topic, executed, matches, filtered, budgeted, assembled, results>>
    /\ UNCHANGED <<parseVars, buildVars, otherVars>>

PackageNext ==
    KeepSections \/ FinishBuild \/ OpenPackage \/ SearchEmptyQuery \/ SearchSyntaxError \/ SearchMatch

PackageSpec == PackageInit /\ [][PackageNext]_vars

\* search has returned on a package that buildPackage produced
SearchedPackage == bpc = "done" /\ spc = "done" /\ executed

\* C25: on a package produced by buildPackage, whenever the index match
\* returns at least one candidate, search returns at least one Snippet.
C25_MatchGivesASnippet ==
    (SearchedPackage /\ matches # <<>>) => results # <<>>

\* C25, the part that holds: the top-ranked candidate passes the relevance
\* filter, and search returns a Snippet whenever that candidate has at most
\* MAX_TOKENS tokens
C25_TopCandidatePassesFilter ==
    (SearchedPackage /\ matches # <<>>) =>
        /\ filtered # <<>>
        /\ filtered[1] = matches[1]
        /\ matches[1].tokens <= MAX_TOKENS => results # <<>>

\* C25: search returned on a built package whose chunks all fit the budget,
\* with a candidate
C25_Reached ==
    /\ SearchedPackage
    /\ matches # <<>>
    /\ results # <<>>
    /\ Len(db) = 3

-----------------------------------------------------------------------------
(* Merged chunks and the source document *)

\* the lines of the package's document, heading lines included
PackageLines == Flatten(SourceSlice(files[1].nodes, 1, Len(files[1].nodes)))

\* the H2 a chunk comes from: the first heading with the chunk's title (a
\* later heading of that title has the same content and was deduplicated)
HeadingOf(chunk) ==
    CHOOSE h \in 1..Len(files[1].nodes) :
        /\ IsH2(files[1].nodes[h])
        /\ getHeadingText(files[1].nodes[h].children) = <<Head(chunk.sectionTitle)>>
        /\ \A g \in 1..(h - 1) :
              IsH2(files[1].nodes[g])
                  => getHeadingText(files[1].nodes[g].children) # <<Head(chunk.sectionTitle)>>

\* the positions in PackageLines of the first and the last line of a chunk
FirstLine(chunk) ==
    LET start == Len(Flatten(SourceSlice(files[1].nodes, 1, HeadingOf(chunk))))
        lines == Flatten(chunk.content)
    IN  CHOOSE i \in (start + 1)..Len(PackageLines) :
            /\ SubSeq(PackageLines, i, i + Len(lines) - 1) = lines
            /\ \A j \in (start + 1)..(i - 1) :
                  SubSeq(PackageLines, j, j + Len(lines) - 1) # lines

LastLine(chunk) == FirstLine(chunk) + Len(Flatten(chunk.content)) - 1

\* the content lines of the document that stand between two chunks
ContentBetween(c1, c2) ==
    { i \in (LastLine(c1) + 1)..(FirstLine(c2) - 1) : PackageLines[i].kind # "h1" }

\* search has put the selected chunks i and j into one Snippet
MergedInto(i, j) ==
    /\ budgeted[i].docPath = budgeted[j].docPath
    /\ budgeted[j].id = budgeted[i].id + 1
    /\ \E s \in 1..Len(assembled) :
          assembled[s].content = budgeted[i].content \o <<"\n", "\n">> \o budgeted[j].content

\* C26: whenever search merges two chunks of a built package into one
\* Snippet, no content of the document stands between them in the source:
\* the second chunk's section begins where the first one's ends.
C26_MergedChunksWereConsecutive ==
    SearchedPackage =>
        \A i, j \in 1..Len(budgeted) :
            MergedInto(i, j) => ContentBetween(chunks[budgeted[i].id], chunks[budgeted[j].id]) = {}

\* C26, what holds: the merged chunks have consecutive ids, and every
\* section of the document between them was dropped at ingestion (none of
\* its lines is in a chunk)
C26_OnlyDroppedContentBetween ==
    SearchedPackage =>
        \A i, j \in 1..Len(budgeted) :
            MergedInto(i, j) =>
                \A l \in ContentBetween(chunks[budgeted[i].id], chunks[budgeted[j].id]) :
                    \A k \in 1..Len(chunks) :
                        k \notin {budgeted[i].id, budgeted[j].id}
                            => ~(FirstLine(chunks[k]) <= l /\ l <= LastLine(chunks[k]))

\* C26: two chunks were merged and nothing stood between them in the source
C26_MergedNeighbours ==
    /\ SearchedPackage
    /\ \E i, j \in 1..Len(budgeted) :
          /\ MergedInto(i, j)
          /\ ContentBetween(chunks[budgeted[i].id], chunks[budgeted[j].id]) = {}

-----------------------------------------------------------------------------
(* Selected chunks and assembled snippets *)

\* the selected chunks that f assigns to snippet s, in id order
AssignedTo(f, s) == SortById(Pick(budgeted, { i \in 1..Len(budgeted) : f[i] = s }))

\* C27: grouping and merging neither lose nor duplicate selected chunks:
\* the selected chunks can be assigned to the assembled snippets, each chunk
\* to exactly one snippet, so that every snippet is made of the chunks
\* assigned to it and of nothing else (their titles joined with " / " after
\* the document title, their contents joined with a blank line, their
\* docPath as source).
C27_EveryChunkInExactlyOneSnippet ==
    Returned =>
        \E f \in [1..Len(budgeted) -> 1..Len(assembled)] :
            \A s \in 1..Len(assembled) :
                /\ \E i \in 1..Len(budgeted) : f[i] = s
                /\ assembled[s] = RunSnippet(AssignedTo(f, s))

\* C27 witness: three chunks of two documents are selected, two of them are
\* merged: two snippets are assembled
C27_Witness ==
    /\ Returned
    /\ Len(budgeted) = 3
    /\ Cardinality({ budgeted[i].docPath : i \in 1..3 }) = 2
    /\ Len(assembled) = 2
    /\ \E s \in 1..2 : \E i \in 1..3 :
          /\ assembled[s].content # budgeted[i].content
          /\ Len(assembled[s].content) > Len(budgeted[i].content)
          /\ SubSeq(assembled[s].content, 1, Len(budgeted[i].content)) = budgeted[i].content

-----------------------------------------------------------------------------
(* Token counts of accumulated paragraphs *)

\* the sum of the per-paragraph estimates: the running estimate of the loop
RECURSIVE SumParaTokens(_)
SumParaTokens(text) ==
    IF text = <<>> THEN 0
    ELSE estimateTokens(ParaLen(Head(text))) + SumParaTokens(Tail(text))

\* C28 as stated: every Section that splitAtParagraphs assembles from two
\* or more accumulated paragraphs has a stored token count of at most
\* MAX_CHUNK_TOKENS (800), the running estimate being never smaller than
\* the estimate of the joined text.
C28_AccumulatedSectionAtMostTarget ==
    [][ (IsSaveStep /\ HeadingIsSplit) =>
            \A k \in 1..Len(NewSections) :
                Len(NewSections[k].content) >= 2 =>
                    /\ NewSections[k].tokens <= MAX_CHUNK_TOKENS
                    /\ SumParaTokens(NewSections[k].content) >= NewSections[k].tokens
      ]_vars

\* C28 amended: for a Section assembled from k >= 2 accumulated paragraphs
\* the running estimate (the sum of the per-paragraph estimates) is at most
\* MAX_CHUNK_TOKENS, and the stored token count, the estimate of the text
\* joined with its k - 1 blank lines, exceeds the running estimate by at
\* most k / 2 rounded down: it can be above 800.
C28_AccumulatedSectionNearTarget ==
    [][ (IsSaveStep /\ HeadingIsSplit) =>
            \A k \in 1..Len(NewSections) :
                Len(NewSections[k].content) >= 2 =>
                    /\ SumParaTokens(NewSections[k].content) <= MAX_CHUNK_TOKENS
                    /\ NewSections[k].tokens
                           <= SumParaTokens(NewSections[k].content)
                                  + (Len(NewSections[k].content) \div 2)
      ]_vars

\* C28 witness: two paragraphs of 1600 characters (400 tokens each) are
\* accumulated; the Section of both has 3202 characters and 801 tokens
C28_Witness ==
    /\ ppc = "done"
    /\ \E i \in 1..Len(parsed) :
          /\ parsed[i].content = << <<TextLine(1600)>>, <<TextLine(1600)>> >>
          /\ SumParaTokens(parsed[i].content) = MAX_CHUNK_TOKENS
          /\ parsed[i].tokens = MAX_CHUNK_TOKENS + 1

-----------------------------------------------------------------------------
(* The title "Introduction" *)

\* C29: the title "Introduction" is given only to content that precedes the
\* first H2: the Sections of content that follows an H2 carry the text
\* extracted from that heading (with a part suffix when it is split), also
\* when the extracted text is empty.
C29_IntroductionOnlyBeforeFirstH2 ==
    [][ IsSaveStep =>
            LET h == LastH2Before(nodeIdx) IN
            h > 0 =>
               \A k \in 1..Len(NewSections) :
                  \E n \in 1..Len(NewSections) :
                     NewSections[k].sectionTitle = NumberedTitle(HeadingTextAt(h), n)
      ]_vars

\* C29, what holds: content that follows an H2 whose extracted text is not
\* empty is emitted under that text, and content before the first H2 under
\* "Introduction"
C29_TitledByNonEmptyHeading ==
    [][ IsSaveStep =>
            LET h == LastH2Before(nodeIdx) IN
            \A k \in 1..Len(NewSections) :
               \E n \in 1..Len(NewSections) :
                  NewSections[k].sectionTitle =
                     NumberedTitle(IF h > 0 /\ HeadingTextAt(h) # <<>>
                                   THEN HeadingTextAt(h) ELSE <<"Introduction">>, n)
      ]_vars

\* C29: the document starts with an H2 of emphasis only, a paragraph follows
\* and is emitted as "Introduction"
C29_EmptyHeadingGivesIntroduction ==
    /\ ppc = "done"
    /\ Len(doc.nodes) >= 2
    /\ doc.nodes[1] = H2Emphasis
    /\ doc.nodes[2] = Block(<<TextLine(17)>>)
    /\ Len(parsed) >= 1
    /\ parsed[1].sectionTitle = <<"Introduction">>

-----------------------------------------------------------------------------
(* parseMarkdown on documents of titled sections with links (TocSpec) *)

MaxTocHeadings == 2

\* a line of n characters, k of them inside markdown links
LinkLine(n, k) == [kind |-> "text", len |-> n, link |-> k]

\* headings that equal a table-of-contents title up to case, a heading that
\* only contains one, and a plain heading
TocHeadings ==
    { H2Words(<<"A">>), H2Words(<<"TOC">>), H2Words(<<"Index">>),
      H2Words(<<"Table", "Of", "Contents">>),
      H2Words(<<"Table", "Of", "Contents", "Guide">>),
      H2Words(<<"Index", "Guide">>) }

\* plain text, links on exactly half of the characters and on one more,
\* text below MIN_CHUNK_TOKENS, and text that is split
TocBlocks ==
    { Block(<<TextLine(17)>>), Block(<<LinkLine(20, 10)>>), Block(<<LinkLine(20, 11)>>),
      Block(<<TextLine(16)>>), [type |-> "block", text |-> << <<TextLine(1600)>>, <<TextLine(1700)>> >>] }

TocDocs(n) ==
    { MkDoc("docs/guide.md", <<"guide">>, "none", <<>>, ConcatAll(us)) :
          us \in UNION { [1..k -> { <<h, b>> : h \in TocHeadings, b \in TocBlocks }] : k \in 1..n } }
    \cup { MkDoc("docs/guide.md", <<"guide">>, "null", <<>>, <<H2Words(<<"A">>)>>) }

TocInit ==
    /\ doc \in TocDocs(MaxTocHeadings)
    /\ nodeIdx = 1
    /\ loopState = LoopStart
    /\ parsed = <<>>
    /\ ppc = "start"
    /\ BuildIdle
    /\ SearchIdle
    /\ OtherIdle

TocSpec == TocInit /\ [][ParseNext]_vars

\* "table of contents", "toc", "contents", "index"
FourTitles == { <<"table", "of", "contents">>, <<"toc">>, <<"contents">>, <<"index">> }

\* the section being saved has content of at least MIN_CHUNK_TOKENS with
\* markdown links on at most half of its characters
SavesLinkPoorContent ==
    /\ IsSaveStep
    /\ loopState.currentH2 # <<>>
    /\ loopState.currentNodes # <<>>
    /\ estimateTokens(TextLen(HeadingCleaned)) >= MIN_CHUNK_TOKENS
    /\ SumLink(Flatten(HeadingCleaned)) * TOC_LINK_RATIO_DEN
           <= TOC_LINK_RATIO_NUM * TextLen(HeadingCleaned)

\* C30: a section is discarded as a table of contents only in the two
\* stated cases: when its heading does not equal one of the four titles up
\* to case, also when it is a longer heading that contains one, and links
\* take at most 50% of its characters, it is emitted when it has at least
\* MIN_CHUNK_TOKENS tokens.
C30_OnlyStatedTocCasesDiscarded ==
    [][ (SavesLinkPoorContent /\ toLowerCase(loopState.currentH2) \notin FourTitles)
            => NewSections # <<>> ]_vars

\* C30, what holds: such a section is emitted when its heading neither is
\* one of "toc", "contents", "index" nor contains "table of contents"
C30_DiscardedAlsoWhenTitleContains ==
    [][ (/\ SavesLinkPoorContent
         /\ toLowerCase(loopState.currentH2) \notin FourTitles
         /\ ~Includes(toLowerCase(loopState.currentH2), <<"table", "of", "contents">>))
            => NewSections # <<>> ]_vars

\* C30: a heading that contains "index" and a section with links on exactly
\* half of its characters are emitted; a heading that contains "table of
\* contents" over plain text is not
C30_LongerHeadings ==
    /\ ppc = "done"
    /\ doc.nodes = <<H2Words(<<"Index", "Guide">>), Block(<<LinkLine(20, 10)>>),
                     H2Words(<<"Table", "Of", "Contents", "Guide">>), Block(<<TextLine(17)>>)>>
    /\ Len(parsed) = 1
    /\ parsed[1].sectionTitle = <<"Index", "Guide">>

====
